---- MODULE Spec2Model ----
(***************************************************************************)
(* TaskIt: the credential and session manager (auth.controller.js,         *)
(* User.js) over the Account collection, the task and user controllers     *)
(* (task.controller.js, user.controller.js, Task.js) over the Task         *)
(* collection, and the frontend's AuthProvider (AuthContext.js).           *)
(*                                                                         *)
(* A handler is a function of the store and of what the request holds in   *)
(* memory, resumed at each of its awaits on the store: one call is the     *)
(* awaited operation taking effect and the code that follows it, up to     *)
(* the next await or to the response. A request comes in in a step of its  *)
(* own: the middleware reads req.user and the handler runs up to its first *)
(* await. Up to MaxReq requests are in flight at once, and any step of one *)
(* may come between two steps of another.                                  *)
(* The specifications differ in the routes that are called and in the      *)
(* inputs the clients send.                                                *)
(***************************************************************************)
EXTENDS Integers, Sequences, FiniteSets, TLC

VARIABLES
    users,      \* the User collection: _id -> document
    nextId,     \* the next ObjectId the store hands out
    now,        \* Date.now(), in milliseconds
    ops,        \* number of requests received so far
    req,        \* the request answered last
    resp,       \* the response to it
    issued,     \* history: the refresh tokens handed out for each _id
    earlier,    \* history: those handed out before the latest one
    exchanged,  \* history: the refresh tokens RefreshToken has accepted
    loginFails, \* history: why logins were refused, with the response sent
    loggedOut,  \* history: _ids logged out and not signed in again since
    raced,      \* history: RefreshToken successes among overlapping requests
    pend,       \* the requests in flight, per connection
    tasks,      \* the Task collection: _id -> document
    nextTaskId, \* the next ObjectId the store hands out for a task
    args,       \* the rest of the request answered last: passwords,
                \* req.params.id, task fields
    plain,      \* history: the plaintext passwords set on each _id, in order
    provider,   \* the frontend's AuthProvider: user, loading, isAuthenticated
    localStorage, \* the browser's localStorage: accessToken, refreshToken
    called      \* history: the AuthProvider function that went on last after
                \* its API call, and whether the call threw

vars == <<users, nextId, now, ops, req, resp, issued, earlier, exchanged,
          loginFails, loggedOut, raced, pend, tasks, nextTaskId, args, plain,
          provider, localStorage, called>>

----------------------------------------------------------------------------
(* Bounds of the model *)

MaxUsers == 2       \* accounts ever created
MaxOps == 3         \* requests received in a behaviour
MaxTicks == 2       \* clock advances in a behaviour
MsPerTick == 1000   \* milliseconds per clock advance
MaxReq == 2         \* connections with a request in flight
MaxConcOps == 3     \* requests received in a behaviour of SpecConc
MaxAccountOps == 3  \* requests received in a behaviour of SpecAccount
MaxTasks == 2       \* tasks ever created
MaxTaskOps == 4     \* requests received in a behaviour of the task routes
MaxBulkOps == 5     \* requests received in a behaviour of SpecBulk
MaxGateOps == 4     \* requests received in a behaviour of SpecGate

(* Token lifetimes, read from the environment at start-up, in seconds:     *)
(* JWT_EXPIRE=2s and JWT_REFRESH_EXPIRE=2s, so that a token outlives the   *)
(* second it was issued in and expires within MaxTicks (the defaults are   *)
(* 7d and 30d)                                                             *)
JWT_EXPIRE == 2
JWT_REFRESH_EXPIRE == 2

StartMs == 1000

Ids == 1..MaxUsers
Slots == 1..MaxReq

----------------------------------------------------------------------------
(* Values *)

\* Strings the handlers transform are sequences of characters.
Emails == { <<"a", "@", "x", ".", "i", "o">>, <<"A", "@", "x", ".", "i", "o">>, <<"b", "@", "x", ".", "i", "o">> }
NoEmail == <<>>
Passwords == { <<"a", "b", "c", "1", "2", "3">>, <<"x", "y", "z", "7", "8", "9">> }
NoName == ""
RequestedRoles == { "user", "admin", "Admin", "root", "" }   \* "" is an absent field
NoDate == -1

\* Inputs of the requests in flight together
ConcPasswords == { <<"a", "b", "c", "1", "2", "3">> }
ConcEmails == { <<"a", "@", "x", ".", "i", "o">>, <<"b", "@", "x", ".", "i", "o">> }
ConcRoles == { "admin", "" }

NoToken == [kind |-> "none", id |-> 0, iat |-> 0, exp |-> 0]
GarbageToken == [kind |-> "garbage", id |-> 0, iat |-> 0, exp |-> 0]
NoAccessToken == [kind |-> "none", id |-> 0, email |-> NoEmail, role |-> "", iat |-> 0, exp |-> 0]
NoUserData == [id |-> 0, name |-> NoName, email |-> NoEmail, role |-> ""]

Digits == {"0", "1", "2", "3", "4", "5", "6", "7", "8", "9"}
Letters ==
    {"a", "b", "c", "d", "e", "f", "g", "h", "i", "j", "k", "l", "m", "n", "o",
     "p", "q", "r", "s", "t", "u", "v", "w", "x", "y", "z",
     "A", "B", "C", "D", "E", "F", "G", "H", "I", "J", "K", "L", "M", "N", "O",
     "P", "Q", "R", "S", "T", "U", "V", "W", "X", "Y", "Z"}

ToLowerChar(c) == CASE c = "A" -> "a" [] c = "B" -> "b" [] c = "X" -> "x" [] OTHER -> c

toLowerCase_identity(s) == s

\* String.prototype.toLowerCase, as the schema's lowercase: true applies it
toLowerCase(s) == [i \in DOMAIN s |-> ToLowerChar(s[i])]

Sec(ms) == ms \div 1000

\* ObjectIds are numbered from 1 in the model and written in hexadecimal from
\* "a": _id.toString() gives the lower-case digits
HexLower == <<"a", "b", "c", "d", "e", "f">>
HexUpper == <<"A", "B", "C", "D", "E", "F">>

toHexString(id) == <<HexLower[id]>>

\* Casting a string to ObjectId reads hexadecimal digits of either case;
\* 0 stands for the CastError on anything else
castObjectId(str) ==
    IF Len(str) = 1
       /\ \E n \in DOMAIN HexLower : str[1] \in {HexLower[n], HexUpper[n]}
    THEN CHOOSE n \in DOMAIN HexLower : str[1] \in {HexLower[n], HexUpper[n]}
    ELSE 0

\* bcrypt.hash: the digest is a string that is not the plaintext
bcryptHash(pw) == <<"$2a$12$">> \o pw

comparePassword(u, candidate) == u.password = bcryptHash(candidate)

generateAccessToken(id, u, t) ==
    [kind |-> "access", id |-> id, email |-> u.email, role |-> u.role,
     iat |-> Sec(t), exp |-> Sec(t) + JWT_EXPIRE]

\* jwt.sign({id}, secret, {expiresIn}): the token is a function of the
\* payload {id, iat, exp}, and iat is the issue time in whole seconds
generateRefreshToken(id, t) ==
    [kind |-> "refresh", id |-> id, iat |-> Sec(t), exp |-> Sec(t) + JWT_REFRESH_EXPIRE]

\* jwt.verify with the refresh secret
jwtVerify(tok, t) ==
    IF tok.kind # "refresh" THEN "JsonWebTokenError"
    ELSE IF Sec(t) >= tok.exp THEN "TokenExpiredError"
    ELSE "ok"

----------------------------------------------------------------------------
(* The User model (User.js) and the store operations the handlers call *)

\* Query filters are cast through the schema, so lowercase: true applies
findOne(us, email) ==
    IF \E i \in DOMAIN us : us[i].email = toLowerCase(email)
    THEN CHOOSE i \in DOMAIN us : us[i].email = toLowerCase(email)
    ELSE 0

duplicateKey_noIndex(us, id, email) == FALSE

\* The unique index on email: a write that would store an email another
\* document already holds is refused with E11000
duplicateKey(us, id, email) ==
    \E i \in DOMAIN us : i # id /\ us[i].email = email

\* pre('save'): hash the password when it was modified
preSave(doc, passwordModified, isNew, t) ==
    IF ~passwordModified THEN doc
    ELSE [doc EXCEPT !.password = bcryptHash(doc.password),
                     !.passwordChangedAt = IF isNew THEN @ ELSE t - 1000]

\* changedPasswordAfter: the token's iat, in seconds, against the second of
\* passwordChangedAt
changedPasswordAfter(u, JWTTimestamp) ==
    IF u.passwordChangedAt # NoDate
    THEN JWTTimestamp < u.passwordChangedAt \div 1000
    ELSE FALSE

\* The document User.create builds from its arguments, setters applied
newDocument(name, email, password, role, t) ==
    preSave([name |-> name, email |-> toLowerCase(email), password |-> password,
             role |-> role, refreshToken |-> NoToken, passwordChangedAt |-> NoDate],
            TRUE, TRUE, t)

NoError ==
    [name |-> "", code |-> 0, keyField |-> "", message |-> "", statusCode |-> 0,
     errors |-> {}]
CastError ==
    [name |-> "CastError", code |-> 0, keyField |-> "",
     message |-> "Cast to ObjectId failed", statusCode |-> 0, errors |-> {}]
DuplicateKeyError ==
    [name |-> "MongoServerError", code |-> 11000, keyField |-> "email",
     message |-> "E11000 duplicate key error", statusCode |-> 0, errors |-> {}]

FieldError(field, message) == [field |-> field, message |-> message]

\* \w of a regular expression
WordChars == Letters \cup Digits \cup {"_"}

\* match: /^\w+([.-]?\w+)*@\w+([.-]?\w+)*(\.\w{2,3})+$/
\* dotted is \w+([.-]?\w+)*, word characters with single dots and hyphens
\* inside, and topLevel is (\.\w{2,3})+
matchesEmail(s) ==
    LET dotted(w) ==
            /\ w # <<>>
            /\ w[1] \in WordChars /\ w[Len(w)] \in WordChars
            /\ \A i \in DOMAIN w : w[i] \in WordChars \cup {".", "-"}
            /\ \A i \in 1..(Len(w) - 1) :
                  w[i] \in WordChars \/ w[i + 1] \in WordChars
        RECURSIVE topLevel(_)
        topLevel(w) ==
            \E n \in {2, 3} :
                /\ Len(w) >= n + 1
                /\ w[1] = "."
                /\ \A i \in 2..(n + 1) : w[i] \in WordChars
                /\ Len(w) = n + 1 \/ topLevel(SubSeq(w, n + 2, Len(w)))
    IN  \E i \in DOMAIN s, j \in DOMAIN s :
            /\ s[i] = "@"
            /\ i < j
            /\ dotted(SubSeq(s, 1, i - 1))
            /\ dotted(SubSeq(s, i + 1, j))
            /\ topLevel(SubSeq(s, j + 1, Len(s)))

\* The validators of the schema, run on a path before pre('save'); a path
\* reports its first failing validator
schemaNameErrors(name) ==
    IF name = NoName THEN {FieldError("name", "Name is required")}
    ELSE IF Len(name) < 2
    THEN {FieldError("name", "Name must be at least 2 characters")}
    ELSE IF Len(name) > 50
    THEN {FieldError("name", "Name cannot exceed 50 characters")}
    ELSE {}

schemaEmailErrors(email) ==
    IF email = NoEmail THEN {FieldError("email", "Email is required")}
    ELSE IF ~matchesEmail(email)
    THEN {FieldError("email", "Please provide a valid email")}
    ELSE {}

schemaPasswordErrors(password) ==
    IF password = <<>> THEN {FieldError("password", "Password is required")}
    ELSE IF Len(password) < 6
    THEN {FieldError("password", "Password must be at least 6 characters")}
    ELSE {}

\* enum: ['user', 'admin'], with the message Mongoose gives it, the grave
\* accents around the value and the path written as apostrophes
schemaRoleErrors(role) ==
    IF role \notin {"user", "admin"}
    THEN {FieldError("role", "'" \o role
                               \o "' is not a valid enum value for path 'role'.")}
    ELSE {}

schemaErrors(name, email, password, role) ==
    schemaNameErrors(name) \cup schemaEmailErrors(email)
      \cup schemaPasswordErrors(password) \cup schemaRoleErrors(role)

ValidationError(model, errors) ==
    [name |-> "ValidationError", code |-> 0, keyField |-> "",
     message |-> model \o " validation failed", statusCode |-> 0,
     errors |-> errors]

\* Errors the driver throws when the store cannot be reached: none of the
\* kinds errorHandler knows
StorageFaults ==
    { [name |-> "MongoNetworkError", code |-> 0, keyField |-> "",
       message |-> "connection 3 to 10.0.0.5:27017 closed", statusCode |-> 0,
       errors |-> {}],
      [name |-> "MongoServerSelectionError", code |-> 0, keyField |-> "",
       message |-> "getaddrinfo ENOTFOUND db.internal", statusCode |-> 0,
       errors |-> {}] }

----------------------------------------------------------------------------
(* Responses *)

NoTaskData ==
    [id |-> 0, title |-> "", status |-> "", priority |-> "", user |-> 0,
     completedAt |-> NoDate, updatedAt |-> NoDate]

\* errors is the per-field list a validation failure carries, task the data of
\* a task response and count the number in a bulk response's message; each
\* is absent otherwise. A message of "" is a body without a message field
Response(status, success, message, user, accessToken, refreshToken) ==
    [status |-> status,
     body |-> [success |-> success, message |-> message, user |-> user,
               accessToken |-> accessToken, refreshToken |-> refreshToken,
               errors |-> {}, task |-> NoTaskData, count |-> 0]]

Failure(status, message) ==
    Response(status, FALSE, message, NoUserData, NoAccessToken, NoToken)

NoResponse == Response(0, FALSE, "", NoUserData, NoAccessToken, NoToken)

\* field.charAt(0).toUpperCase() + field.slice(1), on the paths of the schema
Capitalized(field) ==
    CASE field = "email" -> "Email"
      [] field = "name" -> "Name"
      [] field = "password" -> "Password"
      [] field = "role" -> "Role"
      [] OTHER -> field

\* {...err} copies err.errors as the error carries it: the validator errors
\* themselves, not the {field, message} pairs the ValidationError branch makes
ownErrors(err) ==
    {[path |-> e.field, message |-> e.message, name |-> "ValidatorError"] :
       e \in err.errors}

\* errorHandler.js: each branch that matches overwrites the one before. An
\* error with code 11000 and no keyValue (keyField "") makes line 21 throw:
\* Object.keys(undefined), and one named ValidationError with no errors
\* (errors {}) makes line 28 throw: Object.values(undefined); the handler
\* then sends nothing
errorHandler(err) ==
    IF err.code = 11000 /\ err.keyField = "" THEN NoResponse
    ELSE IF err.name = "ValidationError" /\ err.errors = {} THEN NoResponse
    ELSE
    LET e0 == [message |-> err.message, statusCode |-> err.statusCode,
               errors |-> ownErrors(err)]
        e1 == IF err.name = "CastError"
              THEN [message |-> "Resource not found", statusCode |-> 404,
                    errors |-> {}]
              ELSE e0
        e2 == IF err.code = 11000
              THEN [message |-> Capitalized(err.keyField) \o " already exists",
                    statusCode |-> 400, errors |-> {}]
              ELSE e1
        e3 == IF err.name = "ValidationError"
              THEN [message |-> "Validation failed", statusCode |-> 400,
                    errors |-> err.errors]
              ELSE e2
        e4 == IF err.name = "JsonWebTokenError"
              THEN [message |-> "Invalid token", statusCode |-> 401,
                    errors |-> {}]
              ELSE e3
        e5 == IF err.name = "TokenExpiredError"
              THEN [message |-> "Token expired", statusCode |-> 401,
                    errors |-> {}]
              ELSE e4
        r == Failure(IF e5.statusCode # 0 THEN e5.statusCode ELSE 500,
                     IF e5.message # "" THEN e5.message ELSE "Server Error")
    IN  [r EXCEPT !.body.errors = e5.errors]

UserData(id, u) == [id |-> id, name |-> u.name, email |-> u.email, role |-> u.role]

\* Errors thrown at the handlers
TypeError(property) ==
    [name |-> "TypeError", code |-> 0, keyField |-> "",
     message |-> "Cannot read properties of null (reading '" \o property
                   \o "')",
     statusCode |-> 0, errors |-> {}]

\* doc.save() when the update matches no document: the one loaded is gone
DocumentNotFoundError(model, id) ==
    [name |-> "DocumentNotFoundError", code |-> 0, keyField |-> "",
     message |-> "No document found for query \"{ _id: new ObjectId(\""
                   \o HexLower[id] \o "\") }\" on model \"" \o model \o "\"",
     statusCode |-> 0, errors |-> {}]

----------------------------------------------------------------------------
(* A request in flight *)

Request(op, caller, email, role, token) ==
    [op |-> op, caller |-> caller, email |-> email, role |-> role,
     token |-> token]

NoRequest == Request("", 0, NoEmail, "", NoToken)

NoDoc == [name |-> NoName, email |-> NoEmail, password |-> <<>>, role |-> "",
          refreshToken |-> NoToken, passwordChangedAt |-> NoDate]

NoTask ==
    [title |-> "", status |-> "", priority |-> "", user |-> 0,
     completedAt |-> NoDate, updatedAt |-> NoDate]

\* Nothing but the fields of Request was sent.
\* step and error are the store operation that fails while the request is
\* served and the error it throws, when one does
NoArgs ==
    [name |-> NoName, password |-> <<>>, confirmPassword |-> <<>>,
     currentPassword |-> <<>>, param |-> <<>>, taskIds |-> {}, title |-> "",
     status |-> "", priority |-> "", step |-> "", error |-> NoError]

\* What a request in flight was sent (req, args, and bearer, the access token
\* in its Authorization header when the browser of the model sent it) and
\* what its handler holds in memory at the await it has reached (stage):
\* req.user, the document it loaded (doc or task, with its _id and the paths
\* modified since), a count it has received, a date it has taken, the token
\* pair it signed. fn is the AuthProvider function
\* that awaits the response and reply the response on its way to it; overlap
\* is history
Idle ==
    [req |-> NoRequest, args |-> NoArgs, bearer |-> NoAccessToken,
     stage |-> "idle", user |-> NoUserData, id |-> 0, doc |-> NoDoc,
     task |-> NoTask, paths |-> {}, count |-> 0, date |-> NoDate,
     accessToken |-> NoAccessToken,
     refreshToken |-> NoToken, fn |-> "", reply |-> NoResponse,
     overlap |-> FALSE]

\* The store operation the handler awaits is the one that fails
thrown(p, operation) == p.args.step = operation

----------------------------------------------------------------------------
(* auth.controller.js: the handlers, as functions of the store they read  *)
(* and of the request p, resumed at the await p.stage names               *)

\* The handler has answered
Outcome(us, nid, r) == [users |-> us, nextId |-> nid, resp |-> r]

\* The handler waits on its next store operation, holding p
Holding(us, nid, p) ==
    [users |-> us, nextId |-> nid, resp |-> NoResponse, hold |-> p]

\* The handler has run up to its first await: it waits on the operation
Awaits(us, nid, p, operation) ==
    Holding(us, nid, [p EXCEPT !.stage = operation])

\* select: false on refreshToken: a query that does not ask for the path
\* loads the document without it
unselected(doc) == [doc EXCEPT !.refreshToken = NoToken]

saveRefreshToken_rehashes(us, id, doc, rt) ==
    [us EXCEPT ![id].refreshToken = rt, ![id].password = bcryptHash(@)]

\* user.save() of a document whose only assignment was to refreshToken: the
\* path is written when the value differs from the one loaded
saveRefreshToken(us, id, doc, rt) ==
    IF rt # doc.refreshToken THEN [us EXCEPT ![id].refreshToken = rt] ELSE us

\* sendTokenResponse up to its await: the pair is signed from the document
\* in memory, at the time the await before it resolved
signTokens(p, id, doc, t) ==
    [p EXCEPT !.stage = "save", !.id = id, !.doc = doc,
              !.accessToken = generateAccessToken(id, doc, t),
              !.refreshToken = generateRefreshToken(id, t)]

\* sendTokenResponse from its await on: user.save(), then the response
sendTokenResponse(us, nid, p, statusCode, message) ==
    IF thrown(p, "save") THEN Outcome(us, nid, errorHandler(p.args.error))
    ELSE IF p.id \notin DOMAIN us
    THEN Outcome(us, nid, errorHandler(DocumentNotFoundError("User", p.id)))
    ELSE Outcome(saveRefreshToken(us, p.id, p.doc, p.refreshToken), nid,
                 Response(statusCode, TRUE, message, UserData(p.id, p.doc),
                          p.accessToken, p.refreshToken))

validRole_orDefault(role) == IF role = "" THEN "user" ELSE role

validRole(role) == IF role \in {"user", "admin"} THEN role ELSE "user"

\* User.create: the validators of the schema on the document as the setters
\* left it, pre('save'), and the insert unless the unique index refuses it
create(us, nid, name, email, password, role, t) ==
    LET errors == schemaErrors(name, toLowerCase(email), password, role)
        doc == newDocument(name, email, password, role, t)
    IN  IF errors # {}
        THEN [users |-> us, error |-> ValidationError("User", errors), doc |-> NoDoc]
        ELSE IF duplicateKey(us, nid, doc.email)
        THEN [users |-> us, error |-> DuplicateKeyError, doc |-> NoDoc]
        ELSE [users |-> (nid :> doc) @@ us, error |-> NoError, doc |-> doc]

\* register: await User.findOne, await User.create, await sendTokenResponse.
\* A store operation that throws sends its error to errorHandler, and what
\* was written before stays
register(us, nid, t, p) ==
    IF p.stage = "start" THEN Awaits(us, nid, p, "findOne")
    ELSE IF p.stage = "findOne"
    THEN IF thrown(p, "findOne")
         THEN Outcome(us, nid, errorHandler(p.args.error))
         ELSE IF findOne(us, p.req.email) # 0
         THEN Outcome(us, nid,
                      Failure(400, "User with this email already exists"))
         ELSE Awaits(us, nid, p, "create")
    ELSE IF p.stage = "create"
    THEN IF thrown(p, "create")
         THEN Outcome(us, nid, errorHandler(p.args.error))
         ELSE LET c == create(us, nid, p.args.name, p.req.email,
                              p.args.password, validRole(p.req.role), t)
              IN  IF c.error # NoError
                  THEN Outcome(us, nid, errorHandler(c.error))
                  ELSE Holding(c.users, nid + 1, signTokens(p, nid, c.doc, t))
    ELSE sendTokenResponse(us, nid, p, 201, "Registration successful")

login_tellsApart(us, nid, t, p) ==
    IF p.stage = "start" THEN Awaits(us, nid, p, "findOne")
    ELSE IF p.stage = "findOne"
    THEN IF thrown(p, "findOne")
         THEN Outcome(us, nid, errorHandler(p.args.error))
         ELSE LET id == findOne(us, p.req.email)
              IN  IF id = 0 THEN Outcome(us, nid, Failure(404, "User not found"))
                  ELSE Holding(us, nid, [p EXCEPT !.stage = "compare",
                                                  !.id = id,
                                                  !.doc = unselected(us[id])])
    ELSE IF p.stage = "compare"
    THEN IF ~comparePassword(p.doc, p.args.password)
         THEN Outcome(us, nid, Failure(401, "Invalid credentials"))
         ELSE Holding(us, nid, signTokens(p, p.id, p.doc, t))
    ELSE sendTokenResponse(us, nid, p, 200, "Login successful")

\* login: await User.findOne(...).select('+password'), await
\* user.comparePassword on the document loaded, await sendTokenResponse
login(us, nid, t, p) ==
    IF p.stage = "start" THEN Awaits(us, nid, p, "findOne")
    ELSE IF p.stage = "findOne"
    THEN IF thrown(p, "findOne")
         THEN Outcome(us, nid, errorHandler(p.args.error))
         ELSE LET id == findOne(us, p.req.email)
              IN  IF id = 0
                  THEN Outcome(us, nid, Failure(401, "Invalid credentials"))
                  ELSE Holding(us, nid, [p EXCEPT !.stage = "compare",
                                                  !.id = id,
                                                  !.doc = unselected(us[id])])
    ELSE IF p.stage = "compare"
    THEN IF ~comparePassword(p.doc, p.args.password)
         THEN Outcome(us, nid, Failure(401, "Invalid credentials"))
         ELSE Holding(us, nid, signTokens(p, p.id, p.doc, t))
    ELSE sendTokenResponse(us, nid, p, 200, "Login successful")

logout_overwrites(us, nid, p) ==
    IF p.stage = "start" THEN Awaits(us, nid, p, "findByIdAndUpdate")
    ELSE Outcome(IF p.user.id \in DOMAIN us
                 THEN [us EXCEPT ![p.user.id] =
                                   [@ EXCEPT !.refreshToken = NoToken,
                                             !.password = <<>>,
                                             !.passwordChangedAt = NoDate]]
                 ELSE us,
                 nid,
                 Response(200, TRUE, "Logged out successfully", NoUserData,
                          NoAccessToken, NoToken))

\* logout: await User.findByIdAndUpdate(req.user._id, {refreshToken: null})
logout(us, nid, p) ==
    IF p.stage = "start" THEN Awaits(us, nid, p, "findByIdAndUpdate")
    ELSE Outcome(IF p.user.id \in DOMAIN us
                 THEN [us EXCEPT ![p.user.id].refreshToken = NoToken] ELSE us,
                 nid,
                 Response(200, TRUE, "Logged out successfully", NoUserData,
                          NoAccessToken, NoToken))

\* getMe: await User.findById(req.user._id); the body has data and no
\* message. With the account gone user is null, and reading user._id throws
getMe(us, nid, p) ==
    IF p.stage = "start" THEN Awaits(us, nid, p, "findById")
    ELSE IF p.user.id \in DOMAIN us
    THEN Outcome(us, nid,
                 Response(200, TRUE, "", UserData(p.user.id, us[p.user.id]),
                          NoAccessToken, NoToken))
    ELSE Outcome(us, nid, errorHandler(TypeError("_id")))

\* refreshToken up to its first await, at the time the request comes in:
\* the response when the token is missing or jwt.verify throws, NoResponse
\* when the handler goes on
refreshRefusal(t, token) ==
    IF token = NoToken THEN Failure(400, "Refresh token is required")
    ELSE IF jwtVerify(token, t) # "ok"
    THEN Failure(401, "Invalid or expired refresh token")
    ELSE NoResponse

\* !user || user.refreshToken !== refreshToken, on what User.findById loaded
notStored(us, token) ==
    token.id \notin DOMAIN us \/ us[token.id].refreshToken # token

\* refreshToken, from its await on user.save() on
refreshSaved(us, nid, p) ==
    IF p.id \notin DOMAIN us
    THEN Outcome(us, nid, errorHandler(DocumentNotFoundError("User", p.id)))
    ELSE Outcome(saveRefreshToken(us, p.id, p.doc, p.refreshToken), nid,
                 Response(200, TRUE, "Token refreshed successfully",
                          NoUserData, p.accessToken, p.refreshToken))

\* refreshToken: jwt.verify as the request comes in, await
\* User.findById(...).select('+refreshToken'), the comparison and the new
\* pair, await user.save()
refreshToken(us, nid, t, p) ==
    IF p.stage = "start"
    THEN IF refreshRefusal(t, p.req.token) # NoResponse
         THEN Outcome(us, nid, refreshRefusal(t, p.req.token))
         ELSE Awaits(us, nid, p, "findById")
    ELSE IF p.stage = "findById"
    THEN IF notStored(us, p.req.token)
         THEN Outcome(us, nid, Failure(401, "Invalid refresh token"))
         ELSE Holding(us, nid, signTokens(p, p.req.token.id,
                                          us[p.req.token.id], t))
    ELSE refreshSaved(us, nid, p)

\* updatePassword from the assignment of the new password on: user.save()
\* validates, pre('save') hashes and dates the change when bcrypt.hash has
\* resolved (stage "hash"), the write of the two modified paths is awaited
\* (stage "password"), and sendTokenResponse signs when it has resolved
passwordSaved(us, nid, t, p) ==
    IF p.stage = "compare"
    THEN IF schemaPasswordErrors(p.args.password) # {}
         THEN Outcome(us, nid,
                      errorHandler(ValidationError("User",
                                     schemaPasswordErrors(p.args.password))))
         ELSE Holding(us, nid, [p EXCEPT !.stage = "hash",
                                         !.doc.password = p.args.password])
    ELSE IF p.stage = "hash"
    THEN Holding(us, nid, [p EXCEPT !.stage = "password",
                                    !.doc = preSave(p.doc, TRUE, FALSE, t)])
    ELSE IF p.id \notin DOMAIN us
    THEN Outcome(us, nid, errorHandler(DocumentNotFoundError("User", p.id)))
    ELSE Holding([us EXCEPT ![p.id].password = p.doc.password,
                            ![p.id].passwordChangedAt =
                                p.doc.passwordChangedAt],
                 nid, signTokens(p, p.id, p.doc, t))

updatePassword_unchecked(us, nid, t, p) ==
    IF p.stage = "start" THEN Awaits(us, nid, p, "findById")
    ELSE IF p.stage = "findById"
    THEN IF p.user.id \notin DOMAIN us
         THEN Outcome(us, nid, errorHandler(TypeError("comparePassword")))
         ELSE Holding(us, nid, [p EXCEPT !.stage = "compare",
                                         !.id = p.user.id,
                                         !.doc = unselected(us[p.user.id])])
    ELSE IF p.stage \in {"compare", "hash", "password"}
    THEN passwordSaved(us, nid, t, p)
    ELSE sendTokenResponse(us, nid, p, 200, "Password updated successfully")

\* updatePassword: await User.findById(req.user._id).select('+password'),
\* await user.comparePassword on the document loaded, await user.save(),
\* await sendTokenResponse. With the account gone user is null, and
\* user.comparePassword throws
updatePassword(us, nid, t, p) ==
    IF p.stage = "start" THEN Awaits(us, nid, p, "findById")
    ELSE IF p.stage = "findById"
    THEN IF p.user.id \notin DOMAIN us
         THEN Outcome(us, nid, errorHandler(TypeError("comparePassword")))
         ELSE Holding(us, nid, [p EXCEPT !.stage = "compare",
                                         !.id = p.user.id,
                                         !.doc = unselected(us[p.user.id])])
    ELSE IF p.stage = "compare"
            /\ ~comparePassword(p.doc, p.args.currentPassword)
    THEN Outcome(us, nid, Failure(401, "Current password is incorrect"))
    ELSE IF p.stage \in {"compare", "hash", "password"}
    THEN passwordSaved(us, nid, t, p)
    ELSE sendTokenResponse(us, nid, p, 200, "Password updated successfully")

\* findByIdAndUpdate(id, updateFields, {new: true, runValidators: true}):
\* the validators of the schema run on the paths the update sets, before
\* the update is sent; doc is the document returned, NoDoc for null when
\* none has the _id
findByIdAndUpdate(us, id, name, email, role) ==
    LET errors ==
          (IF name # NoName THEN schemaNameErrors(name) ELSE {})
            \cup (IF email # NoEmail
                  THEN schemaEmailErrors(toLowerCase(email)) ELSE {})
            \cup (IF role # "" THEN schemaRoleErrors(role) ELSE {})
    IN  IF errors # {}
        THEN [users |-> us, error |-> ValidationError("User", errors), doc |-> NoDoc]
        ELSE IF id \notin DOMAIN us
        THEN [users |-> us, error |-> NoError, doc |-> NoDoc]
        ELSE LET doc == [us[id] EXCEPT
                           !.name = IF name # NoName THEN name ELSE @,
                           !.email = IF email # NoEmail THEN toLowerCase(email)
                                     ELSE @,
                           !.role = IF role # "" THEN role ELSE @]
             IN  IF duplicateKey(us, id, doc.email)
                 THEN [users |-> us, error |-> DuplicateKeyError,
                       doc |-> NoDoc]
                 ELSE [users |-> [us EXCEPT ![id] = doc], error |-> NoError,
                       doc |-> doc]

\* updateProfile: the email against req.user.email as the middleware read
\* it, await User.findOne when they differ, await User.findByIdAndUpdate;
\* with the account gone user is null, and reading user._id throws
updateProfile(us, nid, p) ==
    IF p.stage = "start"
    THEN IF p.req.email # NoEmail /\ p.req.email # p.user.email
         THEN Awaits(us, nid, p, "findOne")
         ELSE Awaits(us, nid, p, "findByIdAndUpdate")
    ELSE IF p.stage = "findOne"
    THEN IF findOne(us, p.req.email) # 0
         THEN Outcome(us, nid, Failure(400, "Email is already in use"))
         ELSE Awaits(us, nid, p, "findByIdAndUpdate")
    ELSE LET u == findByIdAndUpdate(us, p.user.id, p.args.name, p.req.email,
                                    "")
         IN  IF u.error # NoError THEN Outcome(us, nid, errorHandler(u.error))
             ELSE IF u.doc = NoDoc
             THEN Outcome(us, nid, errorHandler(TypeError("_id")))
             ELSE Outcome(u.users, nid,
                          Response(200, TRUE, "Profile updated successfully",
                                   UserData(p.user.id, u.doc),
                                   NoAccessToken, NoToken))

----------------------------------------------------------------------------
(* The Task model (Task.js) and task.controller.js *)

Statuses == {"pending", "in-progress", "completed"}

\* The validators of the task schema on the paths given, run by save() and
\* create() before pre('save'); a path reports its first failing validator
taskSchemaErrors(doc, paths) ==
    (IF "title" \notin paths THEN {}
     ELSE IF doc.title = ""
     THEN {FieldError("title", "Task title is required")}
     ELSE IF Len(doc.title) < 3
     THEN {FieldError("title", "Title must be at least 3 characters")}
     ELSE IF Len(doc.title) > 100
     THEN {FieldError("title", "Title cannot exceed 100 characters")}
     ELSE {})
    \cup (IF "status" \in paths /\ doc.status \notin Statuses
          THEN {FieldError("status",
                           "Status must be pending, in-progress, or completed")}
          ELSE {})
    \cup (IF "priority" \in paths
             /\ doc.priority \notin {"low", "medium", "high"}
          THEN {FieldError("priority", "Priority must be low, medium, or high")}
          ELSE {})

\* pre('save'): completedAt follows a modified status
taskPreSave(doc, statusModified, t) ==
    IF statusModified /\ doc.status = "completed"
    THEN [doc EXCEPT !.completedAt = t]
    ELSE IF statusModified /\ doc.status # "completed"
    THEN [doc EXCEPT !.completedAt = NoDate]
    ELSE doc

\* timestamps: true, on save: updatedAt moves when a path was modified
touched(doc, stored, t) ==
    IF doc # stored THEN [doc EXCEPT !.updatedAt = t] ELSE doc

\* The document Task.create builds: the schema defaults fill absent fields,
\* and a field given in the call counts as modified
newTask(title, status, priority, user, t) ==
    taskPreSave([title |-> title,
                 status |-> IF status # "" THEN status ELSE "pending",
                 priority |-> IF priority # "" THEN priority ELSE "medium",
                 user |-> user, completedAt |-> NoDate, updatedAt |-> t],
                status # "", t)

TaskData(id, doc) ==
    [id |-> id, title |-> doc.title, status |-> doc.status,
     priority |-> doc.priority, user |-> doc.user,
     completedAt |-> doc.completedAt, updatedAt |-> doc.updatedAt]

TaskResponse(status, message, data) ==
    [Response(status, TRUE, message, NoUserData, NoAccessToken, NoToken)
       EXCEPT !.body.task = data]

BulkResponse(message, count) ==
    [Response(200, TRUE, message, NoUserData, NoAccessToken, NoToken)
       EXCEPT !.body.count = count]

\* What a handler of the task and user controllers leaves behind
Result(us, ts, ntid, r) ==
    [users |-> us, tasks |-> ts, nextTaskId |-> ntid, resp |-> r]

\* Task.findOne({_id: param, user: owner}); owner 0 leaves the user filter
\* out. The _id found, 0 when no document matches
findTask(ts, param, owner) ==
    LET id == castObjectId(param)
    IN  IF id \in DOMAIN ts /\ (owner = 0 \/ ts[id].user = owner) THEN id ELSE 0

Without(f, ids) == [i \in DOMAIN f \ ids |-> f[i]]

\* The handler waits on its next store operation, holding p
HoldingTask(us, ts, ntid, p) ==
    [users |-> us, tasks |-> ts, nextTaskId |-> ntid, resp |-> NoResponse,
     hold |-> p]

\* The handler has run up to its first await: it waits on the operation
AwaitsTask(us, ts, ntid, p, operation) ==
    HoldingTask(us, ts, ntid, [p EXCEPT !.stage = operation])

getTask_forbidden(us, ts, ntid, p) ==
    IF p.stage = "start" THEN AwaitsTask(us, ts, ntid, p, "findOne")
    ELSE IF castObjectId(p.args.param) = 0
    THEN Result(us, ts, ntid, errorHandler(CastError))
    ELSE IF findTask(ts, p.args.param, 0) = 0
    THEN Result(us, ts, ntid, Failure(404, "Task not found"))
    ELSE IF findTask(ts, p.args.param, p.user.id) = 0
    THEN Result(us, ts, ntid, Failure(403, "Not authorized"))
    ELSE Result(us, ts, ntid,
                TaskResponse(200, "", TaskData(castObjectId(p.args.param),
                                               ts[castObjectId(p.args.param)])))

\* getTask: await Task.findOne({_id: req.params.id, user: req.user._id})
getTask(us, ts, ntid, p) ==
    IF p.stage = "start" THEN AwaitsTask(us, ts, ntid, p, "findOne")
    ELSE IF castObjectId(p.args.param) = 0
    THEN Result(us, ts, ntid, errorHandler(CastError))
    ELSE LET id == findTask(ts, p.args.param, p.user.id)
         IN  IF id = 0 THEN Result(us, ts, ntid, Failure(404, "Task not found"))
             ELSE Result(us, ts, ntid, TaskResponse(200, "", TaskData(id, ts[id])))

\* createTask: await Task.create({..., user: req.user._id}). The document is
\* built and dated as the call is made; the validation of all its paths and
\* the insert are awaited
createTask(us, ts, ntid, t, p) ==
    IF p.stage = "start"
    THEN HoldingTask(us, ts, ntid,
                     [p EXCEPT !.stage = "create",
                               !.task = newTask(p.args.title, p.args.status,
                                                p.args.priority, p.user.id, t)])
    ELSE IF taskSchemaErrors(p.task, DOMAIN p.task) # {}
    THEN Result(us, ts, ntid,
                errorHandler(ValidationError(
                    "Task", taskSchemaErrors(p.task, DOMAIN p.task))))
    ELSE Result(us, (ntid :> p.task) @@ ts, ntid + 1,
                TaskResponse(201, "Task created successfully",
                             TaskData(ntid, p.task)))

\* The paths of the document in memory that differ from the one loaded
modifiedPaths(doc, loaded) == {f \in DOMAIN doc : doc[f] # loaded[f]}

\* doc.save(): the update sets the modified paths on the stored document and
\* leaves its other paths as they are
saved(stored, doc, paths) ==
    [f \in DOMAIN stored |-> IF f \in paths THEN doc[f] ELSE stored[f]]

\* updateTask: await Task.findOne(query), the assignments, and task.save():
\* the document is dated as it is called, the validation of its modified
\* paths and its write are awaited. p.user.role is req.user.role
updateTask(us, ts, ntid, t, p) ==
    IF p.stage = "start" THEN AwaitsTask(us, ts, ntid, p, "findOne")
    ELSE IF p.stage = "findOne"
    THEN IF castObjectId(p.args.param) = 0
         THEN Result(us, ts, ntid, errorHandler(CastError))
         ELSE LET id == findTask(ts, p.args.param,
                                 IF p.user.role # "admin" THEN p.user.id
                                 ELSE 0)
              IN  IF id = 0
                  THEN Result(us, ts, ntid, Failure(404, "Task not found"))
                  ELSE LET set == [ts[id] EXCEPT
                                     !.title = IF p.args.title # ""
                                               THEN p.args.title ELSE @,
                                     !.status = IF p.args.status # ""
                                                THEN p.args.status ELSE @,
                                     !.priority = IF p.args.priority # ""
                                                  THEN p.args.priority ELSE @]
                           doc == touched(taskPreSave(set,
                                                      set.status # ts[id].status,
                                                      t),
                                          ts[id], t)
                       IN  HoldingTask(us, ts, ntid,
                                       [p EXCEPT !.stage = "save", !.id = id,
                                                 !.task = doc,
                                                 !.paths =
                                                     modifiedPaths(doc, ts[id])])
    ELSE IF taskSchemaErrors(p.task, p.paths) # {}
    THEN Result(us, ts, ntid,
                errorHandler(ValidationError(
                    "Task", taskSchemaErrors(p.task, p.paths))))
    ELSE IF p.id \notin DOMAIN ts
    THEN Result(us, ts, ntid,
                errorHandler(DocumentNotFoundError("Task", p.id)))
    ELSE Result(us, [ts EXCEPT ![p.id] = saved(@, p.task, p.paths)], ntid,
                TaskResponse(200, "Task updated successfully",
                             TaskData(p.id, p.task)))

\* deleteTask: await Task.findOneAndDelete({_id: req.params.id, user:
\* req.user._id})
deleteTask(us, ts, ntid, p) ==
    IF p.stage = "start" THEN AwaitsTask(us, ts, ntid, p, "findOneAndDelete")
    ELSE IF castObjectId(p.args.param) = 0
    THEN Result(us, ts, ntid, errorHandler(CastError))
    ELSE LET id == findTask(ts, p.args.param, p.user.id)
         IN  IF id = 0 THEN Result(us, ts, ntid, Failure(404, "Task not found"))
             ELSE Result(us, Without(ts, {id}), ntid,
                         TaskResponse(200, "Task deleted successfully",
                                      NoTaskData))

ownedAmong_anyOwner(ts, caller, taskIds) ==
    {id \in DOMAIN ts : id \in taskIds}

\* The documents a filter {_id: {$in: taskIds}, user: caller} matches
ownedAmong(ts, caller, taskIds) ==
    {id \in DOMAIN ts : id \in taskIds /\ ts[id].user = caller}

\* bulkUpdateStatus: the two checks and the update document, with new Date()
\* for completedAt, as the request comes in; await Task.updateMany.
\* updateMany runs no pre('save'): the update itself sets or unsets
\* completedAt, and timestamps: true adds updatedAt to what it sets as the
\* call is made
bulkUpdateStatus(us, ts, ntid, t, p) ==
    IF p.stage = "start"
    THEN IF p.args.taskIds = {}
         THEN Result(us, ts, ntid, Failure(400, "Task IDs array is required"))
         ELSE IF p.args.status \notin Statuses
         THEN Result(us, ts, ntid, Failure(400, "Invalid status"))
         ELSE HoldingTask(us, ts, ntid,
                          [p EXCEPT !.stage = "updateMany", !.date = t])
    ELSE LET hit == ownedAmong(ts, p.user.id, p.args.taskIds)
             set == [id \in DOMAIN ts |->
                       IF id \in hit
                       THEN [ts[id] EXCEPT
                               !.status = p.args.status,
                               !.completedAt = IF p.args.status = "completed"
                                               THEN p.date ELSE NoDate,
                               !.updatedAt = p.date]
                       ELSE ts[id]]
             \* result.modifiedCount: the matched documents the update changed
             modified == {id \in hit : set[id] # ts[id]}
         IN  Result(us, set, ntid,
                    BulkResponse("tasks updated successfully",
                                 Cardinality(modified)))

\* bulkDelete: the check as the request comes in, await Task.deleteMany
bulkDelete(us, ts, ntid, p) ==
    IF p.stage = "start"
    THEN IF p.args.taskIds = {}
         THEN Result(us, ts, ntid, Failure(400, "Task IDs array is required"))
         ELSE AwaitsTask(us, ts, ntid, p, "deleteMany")
    ELSE LET hit == ownedAmong(ts, p.user.id, p.args.taskIds)
         IN  Result(us, Without(ts, hit), ntid,
                    BulkResponse("tasks deleted successfully", Cardinality(hit)))

----------------------------------------------------------------------------
(* user.controller.js *)

\* req.user._id.toString() === req.params.id
isSelf(caller, param) == toHexString(caller) = param

\* updateUser: await User.findById(req.params.id), the check on the caller's
\* own role, await User.findOne when the email differs from the one loaded,
\* await User.findByIdAndUpdate; data is what that returns, null with the
\* account gone. p.user is req.user
updateUser(us, ts, ntid, p) ==
    LET id == castObjectId(p.args.param)
    IN  IF p.stage = "start" THEN AwaitsTask(us, ts, ntid, p, "findById")
        ELSE IF p.stage = "findById"
        THEN IF id = 0 THEN Result(us, ts, ntid, errorHandler(CastError))
             ELSE IF id \notin DOMAIN us
             THEN Result(us, ts, ntid, Failure(404, "User not found"))
             ELSE IF isSelf(p.user.id, p.args.param) /\ p.req.role # ""
                     /\ p.req.role # p.user.role
             THEN Result(us, ts, ntid,
                         Failure(400, "You cannot change your own role"))
             ELSE IF p.req.email # NoEmail /\ p.req.email # us[id].email
             THEN AwaitsTask(us, ts, ntid, p, "findOne")
             ELSE AwaitsTask(us, ts, ntid, p, "findByIdAndUpdate")
        ELSE IF p.stage = "findOne"
        THEN IF findOne(us, p.req.email) # 0
             THEN Result(us, ts, ntid, Failure(400, "Email is already in use"))
             ELSE AwaitsTask(us, ts, ntid, p, "findByIdAndUpdate")
        ELSE LET u == findByIdAndUpdate(us, id, p.args.name, p.req.email,
                                        p.req.role)
             IN  IF u.error # NoError
                 THEN Result(us, ts, ntid, errorHandler(u.error))
                 ELSE Result(u.users, ts, ntid,
                             Response(200, TRUE, "User updated successfully",
                                      IF u.doc = NoDoc THEN NoUserData
                                      ELSE UserData(id, u.doc),
                                      NoAccessToken, NoToken))

\* A listing answers with data and no message; count is its total
ListResponse(total) ==
    [Response(200, TRUE, "", NoUserData, NoAccessToken, NoToken)
       EXCEPT !.body.count = total]

\* getAllUsers without a query: await User.find, await User.countDocuments,
\* which counts every account
getAllUsers(us, ts, ntid, p) ==
    IF p.stage = "start" THEN AwaitsTask(us, ts, ntid, p, "find")
    ELSE IF p.stage = "find"
    THEN AwaitsTask(us, ts, ntid, p, "countDocuments")
    ELSE Result(us, ts, ntid, ListResponse(Cardinality(DOMAIN us)))

\* getUser: await User.findById(req.params.id), await Task.getStats; the
\* response carries the account as the first loaded it
getUser(us, ts, ntid, p) ==
    LET id == castObjectId(p.args.param)
    IN  IF p.stage = "start" THEN AwaitsTask(us, ts, ntid, p, "findById")
        ELSE IF p.stage = "findById"
        THEN IF id = 0 THEN Result(us, ts, ntid, errorHandler(CastError))
             ELSE IF id \notin DOMAIN us
             THEN Result(us, ts, ntid, Failure(404, "User not found"))
             ELSE HoldingTask(us, ts, ntid,
                              [p EXCEPT !.stage = "getStats", !.id = id,
                                        !.doc = unselected(us[id])])
        ELSE Result(us, ts, ntid,
                    Response(200, TRUE, "", UserData(p.id, p.doc),
                             NoAccessToken, NoToken))

\* getUserStats: await User.countDocuments() for the total, the two counts
\* by role and User.find() awaited after it; the response carries the total
\* as the first counted it
getUserStats(us, ts, ntid, p) ==
    IF p.stage = "start" THEN AwaitsTask(us, ts, ntid, p, "countDocuments")
    ELSE IF p.stage = "countDocuments"
    THEN HoldingTask(us, ts, ntid,
                     [p EXCEPT !.stage = "countDocuments admin",
                               !.count = Cardinality(DOMAIN us)])
    ELSE IF p.stage = "countDocuments admin"
    THEN AwaitsTask(us, ts, ntid, p, "countDocuments user")
    ELSE IF p.stage = "countDocuments user"
    THEN AwaitsTask(us, ts, ntid, p, "find")
    ELSE Result(us, ts, ntid, ListResponse(p.count))

\* createUser: await User.findOne, await User.create; the role defaults to
\* 'user' and is otherwise left to the schema
createUser(us, nid, t, p) ==
    IF p.stage = "start" THEN Awaits(us, nid, p, "findOne")
    ELSE IF p.stage = "findOne"
    THEN IF findOne(us, p.req.email) # 0
         THEN Outcome(us, nid,
                      Failure(400, "User with this email already exists"))
         ELSE Awaits(us, nid, p, "create")
    ELSE LET c == create(us, nid, p.args.name, p.req.email, p.args.password,
                         IF p.req.role # "" THEN p.req.role ELSE "user", t)
         IN  IF c.error # NoError
             THEN Outcome(us, nid, errorHandler(c.error))
             ELSE Outcome(c.users, nid + 1,
                          Response(201, TRUE, "User created successfully",
                                   UserData(nid, c.doc), NoAccessToken,
                                   NoToken))

\* Task.deleteMany({user: req.params.id})
deleteTasksOf(ts, id) == Without(ts, {i \in DOMAIN ts : ts[i].user = id})

\* deleteUser: await User.findById(req.params.id), the check on the caller's
\* own account, await Task.deleteMany, await User.findByIdAndDelete
deleteUser(us, ts, ntid, p) ==
    LET id == castObjectId(p.args.param)
    IN  IF p.stage = "start" THEN AwaitsTask(us, ts, ntid, p, "findById")
        ELSE IF p.stage = "findById"
        THEN IF id = 0 THEN Result(us, ts, ntid, errorHandler(CastError))
             ELSE IF id \notin DOMAIN us
             THEN Result(us, ts, ntid, Failure(404, "User not found"))
             ELSE IF isSelf(p.user.id, p.args.param)
             THEN Result(us, ts, ntid,
                         Failure(400, "You cannot delete your own account"))
             ELSE AwaitsTask(us, ts, ntid, p, "deleteMany")
        ELSE IF p.stage = "deleteMany"
        THEN HoldingTask(us, deleteTasksOf(ts, id), ntid,
                         [p EXCEPT !.stage = "findByIdAndDelete"])
        ELSE Result(Without(us, {id}), ts, ntid,
                    Response(200, TRUE,
                             "User and associated tasks deleted successfully",
                             NoUserData, NoAccessToken, NoToken))

\* The handler of each route, by the operation of the request
controller(us, nid, ts, ntid, t, p) ==
    CASE p.req.op = "register" -> register(us, nid, t, p)
      [] p.req.op = "login" -> login(us, nid, t, p)
      [] p.req.op = "logout" -> logout(us, nid, p)
      [] p.req.op = "getMe" -> getMe(us, nid, p)
      [] p.req.op = "refresh" -> refreshToken(us, nid, t, p)
      [] p.req.op = "updatePassword" -> updatePassword(us, nid, t, p)
      [] p.req.op = "updateProfile" -> updateProfile(us, nid, p)
      [] p.req.op = "getTask" -> getTask(us, ts, ntid, p)
      [] p.req.op = "createTask" -> createTask(us, ts, ntid, t, p)
      [] p.req.op = "updateTask" -> updateTask(us, ts, ntid, t, p)
      [] p.req.op = "deleteTask" -> deleteTask(us, ts, ntid, p)
      [] p.req.op = "bulkUpdateStatus" -> bulkUpdateStatus(us, ts, ntid, t, p)
      [] p.req.op = "bulkDelete" -> bulkDelete(us, ts, ntid, p)
      [] p.req.op = "getAllUsers" -> getAllUsers(us, ts, ntid, p)
      [] p.req.op = "getUser" -> getUser(us, ts, ntid, p)
      [] p.req.op = "getUserStats" -> getUserStats(us, ts, ntid, p)
      [] p.req.op = "createUser" -> createUser(us, nid, t, p)
      [] p.req.op = "updateUser" -> updateUser(us, ts, ntid, p)
      [] p.req.op = "deleteUser" -> deleteUser(us, ts, ntid, p)

----------------------------------------------------------------------------
(* auth.validator.js: the express-validator chains in front of the handlers *)

\* .matches(/\d/) and .matches(/[a-zA-Z]/)
matchesDigit(s) == \E i \in DOMAIN s : s[i] \in Digits
matchesLetter(s) == \E i \in DOMAIN s : s[i] \in Letters

\* A chain without .bail() runs every validator and reports each failure
passwordRules_noDigitRule(field, value, required) ==
    (IF value = <<>> THEN {FieldError(field, required)} ELSE {})
      \cup (IF Len(value) < 6
            THEN {FieldError(field, "Password must be at least 6 characters")}
            ELSE {})
      \cup (IF ~matchesLetter(value)
            THEN {FieldError(field, "Password must contain at least one letter")}
            ELSE {})

\* notEmpty, isLength({min: 6}), matches(/\d/), matches(/[a-zA-Z]/)
passwordRules(field, value, required) ==
    (IF value = <<>> THEN {FieldError(field, required)} ELSE {})
      \cup (IF Len(value) < 6
            THEN {FieldError(field, "Password must be at least 6 characters")}
            ELSE {})
      \cup (IF ~matchesDigit(value)
            THEN {FieldError(field, "Password must contain at least one number")}
            ELSE {})
      \cup (IF ~matchesLetter(value)
            THEN {FieldError(field, "Password must contain at least one letter")}
            ELSE {})

\* notEmpty and the custom validator value !== req.body.<password field>
confirmationRules(field, value, password) ==
    (IF value = <<>>
     THEN {FieldError(field, "Password confirmation is required")} ELSE {})
      \cup (IF value # password
            THEN {FieldError(field, "Passwords do not match")} ELSE {})

\* The names of the model other than the empty one are 2 to 50 letters
nameRules(name, optional) ==
    IF name # NoName \/ optional THEN {}
    ELSE {FieldError("name", "Name is required"),
          FieldError("name", "Name must be between 2 and 50 characters"),
          FieldError("name", "Name can only contain letters and spaces")}

\* The emails of the model other than the empty one are well-formed
emailRules(email, optional) ==
    IF email # NoEmail \/ optional THEN {}
    ELSE {FieldError("email", "Email is required"),
          FieldError("email", "Please provide a valid email")}

\* .normalizeEmail(): the address in lower case
normalizeEmail(email) == toLowerCase(email)

registerValidation(name, email, password, confirmPassword) ==
    nameRules(name, FALSE) \cup emailRules(email, FALSE)
      \cup passwordRules("password", password, "Password is required")
      \cup confirmationRules("confirmPassword", confirmPassword, password)

loginValidation(email, password) ==
    emailRules(email, FALSE)
      \cup (IF password = <<>>
            THEN {FieldError("password", "Password is required")} ELSE {})

updatePasswordValidation(currentPassword, newPassword, confirmNewPassword) ==
    (IF currentPassword = <<>>
     THEN {FieldError("currentPassword", "Current password is required")}
     ELSE {})
      \cup passwordRules("newPassword", newPassword, "New password is required")
      \cup confirmationRules("confirmNewPassword", confirmNewPassword,
                             newPassword)

updateProfileValidation(name, email) ==
    nameRules(name, TRUE) \cup emailRules(email, TRUE)

\* validate: the response when validationResult(req) has errors, NoResponse
\* when the request goes on to the handler
validate(errors) ==
    IF errors # {}
    THEN [Failure(400, "Validation failed") EXCEPT !.body.errors = errors]
    ELSE NoResponse

----------------------------------------------------------------------------
----------------------------------------------------------------------------
(* The routes: the middleware in front of a handler, run once as the      *)
(* request comes in                                                       *)

\* The /auth routes with a validation chain; normalizeEmail rewrites
\* req.body.email before the handler reads it
registerRoute(us, nid, t, p) ==
    LET refusal == validate(registerValidation(p.args.name, p.req.email,
                                               p.args.password,
                                               p.args.confirmPassword))
    IN  IF refusal # NoResponse THEN Outcome(us, nid, refusal)
        ELSE register(us, nid, t, [p EXCEPT !.req.email = normalizeEmail(@)])

loginRoute(us, nid, t, p) ==
    LET refusal == validate(loginValidation(p.req.email, p.args.password))
    IN  IF refusal # NoResponse THEN Outcome(us, nid, refusal)
        ELSE login(us, nid, t, [p EXCEPT !.req.email = normalizeEmail(@)])

\* args.password is req.body.newPassword, args.confirmPassword
\* req.body.confirmNewPassword
updatePasswordRoute(us, nid, t, p) ==
    LET refusal == validate(updatePasswordValidation(p.args.currentPassword,
                                                     p.args.password,
                                                     p.args.confirmPassword))
    IN  IF refusal # NoResponse THEN Outcome(us, nid, refusal)
        ELSE updatePassword(us, nid, t, p)

updateProfileRoute(us, nid, p) ==
    LET refusal == validate(updateProfileValidation(p.args.name, p.req.email))
    IN  IF refusal # NoResponse THEN Outcome(us, nid, refusal)
        ELSE updateProfile(us, nid, [p EXCEPT !.req.email = normalizeEmail(@)])

authorize_anyRole(role, roles) == NoResponse

\* The gate in front of a route: the refusal for a caller whose role is not
\* among roles, NoResponse when the request goes on to the handler
authorize(role, roles) ==
    IF role \in roles THEN NoResponse
    ELSE Failure(403, "Not authorized to access this route")

\* A /users route: the gate for the elevated role, then the handler
usersRoute(us, nid, callerRole, handled) ==
    IF authorize(callerRole, {"admin"}) # NoResponse
    THEN Outcome(us, nid, authorize(callerRole, {"admin"}))
    ELSE handled

\* The access-token middleware: the account an unexpired access token names,
\* 0 when the request carries none that is good
protect(us, t, token) ==
    IF token.kind = "access" /\ Sec(t) < token.exp /\ token.id \in DOMAIN us
    THEN token.id ELSE 0

\* A private route: the handler runs for the account protect resolved
private(us, nid, caller, handled) ==
    IF caller = 0
    THEN Outcome(us, nid, Failure(401, "Not authorized to access this route"))
    ELSE handled

----------------------------------------------------------------------------
(* The frontend: AuthContext.js in one browser. Each function of           *)
(* AuthProvider awaits one API call; what follows is the function from     *)
(* that await on, r being the response, NoResponse when none came          *)

\* localStorage without the two keys
NoItems == [accessToken |-> NoAccessToken, refreshToken |-> NoToken]

\* No AuthProvider function has gone on since the page was loaded
NoCall == [fn |-> "", failed |-> FALSE]

\* AuthProvider as useState initialises it
Mounting == [user |-> NoUserData, loading |-> TRUE, isAuthenticated |-> FALSE]

\* axios resolves on a 2xx status and throws on any other, and on no answer
Fulfilled(r) == r.status \in 200..299

View(pv, ls) == [provider |-> pv, localStorage |-> ls]

\* checkAuth, r being what GET /auth/me gave when a token was there to send
checkAuth(pv, ls, r) ==
    IF ls.accessToken # NoAccessToken
    THEN IF Fulfilled(r)
         THEN View([user |-> r.body.user, loading |-> FALSE,
                    isAuthenticated |-> TRUE], ls)
         ELSE View([pv EXCEPT !.loading = FALSE], NoItems)
    ELSE View([pv EXCEPT !.loading = FALSE], ls)

\* login and register of AuthProvider: the tokens of the response go to
\* localStorage, its user to the state
signedIn(pv, ls, r) ==
    IF Fulfilled(r)
    THEN View([pv EXCEPT !.user = r.body.user, !.isAuthenticated = TRUE],
              [accessToken |-> r.body.accessToken,
               refreshToken |-> r.body.refreshToken])
    ELSE View(pv, ls)

signedOut_onlyIfServed(pv, ls, r) ==
    IF Fulfilled(r)
    THEN View([pv EXCEPT !.user = NoUserData, !.isAuthenticated = FALSE],
              NoItems)
    ELSE View(pv, ls)

\* logout of AuthProvider: the finally block runs whatever the request did
signedOut(pv, ls, r) ==
    View([pv EXCEPT !.user = NoUserData, !.isAuthenticated = FALSE], NoItems)

\* updateProfile of AuthProvider: setUser(response.data.data)
profileUpdated(pv, ls, r) ==
    IF Fulfilled(r) THEN View([pv EXCEPT !.user = r.body.user], ls)
    ELSE View(pv, ls)

\* updatePassword of AuthProvider: the response is awaited and dropped
passwordUpdated(pv, ls, r) == View(pv, ls)

\* The function fn of AuthProvider goes on with r
settled(fn, pv, ls, r) ==
    CASE fn = "checkAuth" -> checkAuth(pv, ls, r)
      [] fn \in {"login", "register"} -> signedIn(pv, ls, r)
      [] fn = "logout" -> signedOut(pv, ls, r)
      [] fn = "updateProfile" -> profileUpdated(pv, ls, r)
      [] fn = "updatePassword" -> passwordUpdated(pv, ls, r)
      [] OTHER -> View(pv, ls)

----------------------------------------------------------------------------
(* The server: a request comes in on a connection and its handler runs,   *)
(* one await at a time                                                    *)

Init ==
    /\ users = <<>>
    /\ nextId = 1
    /\ now = StartMs
    /\ ops = 0
    /\ req = NoRequest
    /\ resp = NoResponse
    /\ issued = [i \in Ids |-> {}]
    /\ earlier = [i \in Ids |-> {}]
    /\ exchanged = {}
    /\ loginFails = {}
    /\ loggedOut = {}
    /\ raced = {}
    /\ pend = [s \in Slots |-> Idle]
    /\ tasks = <<>>
    /\ nextTaskId = 1
    /\ args = NoArgs
    /\ plain = [i \in Ids |-> <<>>]
    /\ provider = Mounting
    /\ localStorage = NoItems
    /\ called = NoCall

\* A new request takes the first connection with none on it
Free(s) ==
    /\ pend[s].stage = "idle"
    /\ \A o \in 1..(s - 1) : pend[o].stage # "idle"

\* The request a client other than the browser sends, as the middleware
\* hands it to the handler: req.user is the caller's account as it reads it
Sent(rq, a) ==
    [Idle EXCEPT !.req = rq, !.args = a, !.stage = "start",
                 !.user = IF rq.caller \in DOMAIN users
                          THEN UserData(rq.caller, users[rq.caller])
                          ELSE NoUserData]

\* The refresh tokens a client can present: those it was handed, or junk
Presentable == (UNION {issued[i] : i \in Ids}) \cup {NoToken, GarbageToken}

\* History: the requests that presented the same refresh token and have made
\* their comparison but not their save as the one on connection s, holding
\* h, makes its own
Rivals(s, h) ==
    IF h.req.op = "refresh" /\ h.stage = "save" /\ pend[s].stage # "save"
    THEN {o \in Slots \ {s} :
            /\ pend[o].req.op = "refresh" /\ pend[o].stage = "save"
            /\ pend[o].req.token = h.req.token}
    ELSE {}

\* The handler on connection s waits on a store operation, holding h
Await(s, h) ==
    /\ pend' = [o \in Slots |->
                  IF o = s THEN [h EXCEPT !.overlap = @ \/ Rivals(s, h) # {}]
                  ELSE IF o \in Rivals(s, h)
                  THEN [pend[o] EXCEPT !.overlap = TRUE]
                  ELSE pend[o]]
    /\ UNCHANGED <<req, args, resp, issued, earlier, exchanged, loginFails,
                   loggedOut, raced, provider, localStorage, called>>

\* The handler on connection s answers the request p with r. The response
\* to the browser is on its way to the function that awaits it
Respond(s, p, r) ==
    /\ pend' = [pend EXCEPT ![s] = IF p.fn = "" THEN Idle
                                   ELSE [Idle EXCEPT !.stage = "responded",
                                                     !.fn = p.fn,
                                                     !.reply = r]]
    /\ req' = p.req
    /\ args' = p.args
    /\ resp' = r
    /\ issued' = LET rt == r.body.refreshToken
                 IN  IF rt = NoToken THEN issued
                     ELSE [issued EXCEPT ![rt.id] = @ \cup {rt}]
    /\ earlier' = LET rt == r.body.refreshToken
                  IN  IF rt = NoToken THEN earlier
                      ELSE [earlier EXCEPT ![rt.id] = issued[rt.id]]
    /\ exchanged' = IF p.req.op = "refresh" /\ r.status = 200
                    THEN exchanged \cup {p.req.token} ELSE exchanged
    /\ loginFails' =
          IF p.req.op = "login" /\ p.stage \in {"findOne", "compare"}
             /\ r.status # 200 /\ ~thrown(p, "findOne")
          THEN loginFails \cup
                 {[reason |-> IF p.stage = "findOne" THEN "no account"
                              ELSE "wrong password",
                   resp |-> r]}
          ELSE loginFails
    /\ loggedOut' =
          IF p.req.op = "logout" /\ r.status = 200
          THEN loggedOut \cup {p.req.caller}
          ELSE IF p.req.op \in {"register", "login", "updatePassword"}
                  /\ r.body.success
          THEN loggedOut \ {r.body.user.id}
          ELSE loggedOut
    /\ raced' = IF p.req.op = "refresh" /\ r.status = 200 /\ p.overlap
                THEN raced \cup {[token |-> p.req.token, connection |-> s]}
                ELSE raced
    /\ UNCHANGED <<provider, localStorage, called>>

\* One step of the handler of the request p on connection s: out is what
\* the handler leaves in the store, with the response it sends or with what
\* it holds at its next await
Step(s, p, out) ==
    /\ users' = out.users
    /\ nextId' = IF "nextId" \in DOMAIN out THEN out.nextId ELSE nextId
    /\ tasks' = IF "tasks" \in DOMAIN out THEN out.tasks ELSE tasks
    /\ nextTaskId' = IF "nextTaskId" \in DOMAIN out THEN out.nextTaskId
                     ELSE nextTaskId
    /\ nextId' <= MaxUsers + 1
    /\ nextTaskId' <= MaxTasks + 1
    /\ plain' =
          IF nextId' # nextId
          THEN [plain EXCEPT ![nextId] = Append(@, p.args.password)]
          ELSE IF p.req.op = "updatePassword" /\ p.stage = "password"
                  /\ "hold" \in DOMAIN out
          THEN [plain EXCEPT ![p.id] = Append(@, p.args.password)]
          ELSE plain
    /\ IF "hold" \in DOMAIN out THEN Await(s, out.hold)
       ELSE Respond(s, p, out.resp)
    /\ now' = now

\* The request p comes in on connection s: the middleware has set req.user,
\* and the handler runs up to its first await, out being what it does
Begin(s, cap, p, out) ==
    /\ Free(s)
    /\ ops < cap
    /\ ops' = ops + 1
    /\ Step(s, p, out)

\* The handler of the request on connection s goes on from the await it has
\* reached: the operation it awaited takes effect and the handler runs on to
\* its next await or to its response
Resume(s) ==
    /\ pend[s].stage \notin {"idle", "start", "responded"}
    /\ UNCHANGED ops
    /\ Step(s, pend[s],
            controller(users, nextId, tasks, nextTaskId, now, pend[s]))

\* Time passes
Tick ==
    /\ now < StartMs + MaxTicks * MsPerTick
    /\ now' = now + MsPerTick
    /\ UNCHANGED <<users, nextId, ops, req, resp, issued, earlier, exchanged,
                   loginFails, loggedOut, raced, pend, tasks, nextTaskId, args,
                   plain, provider, localStorage, called>>

----------------------------------------------------------------------------
(* The /auth routes, called by clients other than the browser. Logout,    *)
(* UpdatePassword and UpdateProfile come through the access-token         *)
(* middleware, which sets req.user to the caller's account                *)

\* POST /auth/register
Register(s, cap, emails, passwords, roles) ==
    \E email \in emails, password \in passwords, role \in roles :
        LET p == Sent(Request("register", 0, email, role, NoToken),
                      [NoArgs EXCEPT !.name = "Ann", !.password = password])
        IN  Begin(s, cap, p, register(users, nextId, now, p))

\* POST /auth/login
Login(s, cap, emails, passwords) ==
    \E email \in emails, password \in passwords :
        LET p == Sent(Request("login", 0, email, "", NoToken),
                      [NoArgs EXCEPT !.password = password])
        IN  Begin(s, cap, p, login(users, nextId, now, p))

\* POST /auth/logout
Logout(s, cap) ==
    \E caller \in DOMAIN users :
        LET p == Sent(Request("logout", caller, NoEmail, "", NoToken), NoArgs)
        IN  Begin(s, cap, p, logout(users, nextId, p))

\* POST /auth/refresh-token
RefreshToken(s, cap) ==
    \E token \in Presentable :
        LET p == Sent(Request("refresh", 0, NoEmail, "", token), NoArgs)
        IN  Begin(s, cap, p, refreshToken(users, nextId, now, p))

\* PUT /auth/update-password
UpdatePassword(s, cap, passwords) ==
    \E caller \in DOMAIN users, currentPassword \in passwords,
       newPassword \in passwords :
        LET p == Sent(Request("updatePassword", caller, NoEmail, "", NoToken),
                      [NoArgs EXCEPT !.currentPassword = currentPassword,
                                     !.password = newPassword])
        IN  Begin(s, cap, p, updatePassword(users, nextId, now, p))

\* PUT /auth/update-profile
UpdateProfile(s, cap, names, emails) ==
    \E caller \in DOMAIN users, name \in names, email \in emails :
        LET p == Sent(Request("updateProfile", caller, email, "", NoToken),
                      [NoArgs EXCEPT !.name = name])
        IN  Begin(s, cap, p, updateProfile(users, nextId, p))

----------------------------------------------------------------------------
(* The /users routes that write an address, past the gate for the         *)
(* elevated role                                                          *)

IsAdmin(caller) == caller \in DOMAIN users /\ users[caller].role = "admin"

\* POST /users
CreateUser(s, cap) ==
    \E caller \in Ids, email \in Emails, password \in ConcPasswords,
       role \in ConcRoles :
        LET p == Sent(Request("createUser", caller, email, role, NoToken),
                      [NoArgs EXCEPT !.name = "Bob", !.password = password])
        IN  /\ IsAdmin(caller)
            /\ Begin(s, cap, p, createUser(users, nextId, now, p))

\* PUT /users/:id
UpdateUser(s, cap, params, names, emails, roles) ==
    \E caller \in Ids, param \in params, name \in names, email \in emails,
       role \in roles :
        LET p == Sent(Request("updateUser", caller, email, role, NoToken),
                      [NoArgs EXCEPT !.name = name, !.param = param])
        IN  /\ IsAdmin(caller)
            /\ Begin(s, cap, p, updateUser(users, tasks, nextTaskId, p))

\* The handlers that write an e-mail address
NextConc ==
    \/ \E s \in Slots : Register(s, MaxConcOps, Emails, ConcPasswords,
                                 ConcRoles)
    \/ \E s \in Slots : Resume(s)
    \/ \E s \in Slots : UpdateProfile(s, MaxConcOps, {NoName}, Emails)
    \/ \E s \in Slots : CreateUser(s, MaxConcOps)
    \/ \E s \in Slots : UpdateUser(s, MaxConcOps,
                                   {toHexString(i) : i \in Ids}, {NoName},
                                   Emails, {"", "user"})

SpecConc == Init /\ [][NextConc]_vars

----------------------------------------------------------------------------
(* The /auth routes: the validation chain, then the handler *)

\* Passwords a client can send: the two that conform, one too short, one
\* without a letter, one without a digit, and none
AllPasswords ==
    Passwords \cup { <<"a", "1">>, <<"1", "2", "3", "4", "5", "6">>,
                     <<"a", "b", "c", "d", "e", "f">>, <<>> }

\* The confirmation a client can send with a password: the same, or another
Confirmations(password) == {password, <<"a", "b", "c", "1", "2", "3">>}

PostRegister(s, names, passwords) ==
    \E name \in names, email \in ConcEmails, password \in passwords :
        \E confirmPassword \in Confirmations(password) :
            LET p == Sent(Request("register", 0, email, "", NoToken),
                          [NoArgs EXCEPT !.name = name, !.password = password,
                                         !.confirmPassword = confirmPassword])
            IN  Begin(s, MaxAccountOps, p, registerRoute(users, nextId, now, p))

PostLogin(s) ==
    \E email \in ConcEmails, password \in Passwords \cup {<<>>} :
        LET p == Sent(Request("login", 0, email, "", NoToken),
                      [NoArgs EXCEPT !.password = password])
        IN  Begin(s, MaxAccountOps, p, loginRoute(users, nextId, now, p))

PutUpdatePassword(s, passwords) ==
    \E caller \in DOMAIN users, currentPassword \in Passwords,
       newPassword \in passwords :
        \E confirmNewPassword \in Confirmations(newPassword) :
            LET p == Sent(Request("updatePassword", caller, NoEmail, "",
                                  NoToken),
                          [NoArgs EXCEPT
                             !.currentPassword = currentPassword,
                             !.password = newPassword,
                             !.confirmPassword = confirmNewPassword])
            IN  Begin(s, MaxAccountOps, p,
                      updatePasswordRoute(users, nextId, now, p))

PutUpdateProfile(s) ==
    \E caller \in DOMAIN users, name \in {"Bob", NoName},
       email \in ConcEmails \cup {NoEmail} :
        LET p == Sent(Request("updateProfile", caller, email, "", NoToken),
                      [NoArgs EXCEPT !.name = name])
        IN  Begin(s, MaxAccountOps, p, updateProfileRoute(users, nextId, p))

\* Registration and password change on passwords of every kind
NextValidation ==
    \/ \E s \in Slots : PostRegister(s, {"Ann", NoName}, AllPasswords)
    \/ \E s \in Slots : Resume(s)
    \/ \E s \in Slots : PutUpdatePassword(s, AllPasswords)

SpecValidation == Init /\ [][NextValidation]_vars

\* Every /auth route that writes an account, on passwords that conform or
\* are missing
NextAccount ==
    \/ \E s \in Slots : PostRegister(s, {"Ann"}, Passwords \cup {<<>>})
    \/ \E s \in Slots : Resume(s)
    \/ \E s \in Slots : PostLogin(s)
    \/ \E s \in Slots : Logout(s, MaxAccountOps)
    \/ \E s \in Slots : RefreshToken(s, MaxAccountOps)
    \/ \E s \in Slots : PutUpdatePassword(s, Passwords \cup {<<>>})
    \/ \E s \in Slots : PutUpdateProfile(s)

SpecAccount == Init /\ [][NextAccount]_vars

----------------------------------------------------------------------------
(* register and login while the store may fail *)

\* No operation fails, or one of the handler's store operations throws
Faults ==
    {[step |-> "", error |-> NoError]}
      \cup {[step |-> st, error |-> e] :
              st \in {"findOne", "create", "save"}, e \in StorageFaults}

RegisterFaulty(s) ==
    \E email \in ConcEmails, password \in ConcPasswords, role \in {""},
       fault \in Faults :
        LET p == Sent(Request("register", 0, email, role, NoToken),
                      [NoArgs EXCEPT !.name = "Ann", !.password = password,
                                     !.step = fault.step,
                                     !.error = fault.error])
        IN  Begin(s, MaxOps, p, register(users, nextId, now, p))

LoginFaulty(s) ==
    \E email \in ConcEmails, password \in ConcPasswords, fault \in Faults :
        LET p == Sent(Request("login", 0, email, "", NoToken),
                      [NoArgs EXCEPT !.password = password,
                                     !.step = fault.step,
                                     !.error = fault.error])
        IN  /\ fault.step # "create"
            /\ Begin(s, MaxOps, p, login(users, nextId, now, p))

NextFault ==
    \/ \E s \in Slots : RegisterFaulty(s)
    \/ \E s \in Slots : Resume(s)
    \/ \E s \in Slots : LoginFaulty(s)

SpecFault == Init /\ [][NextFault]_vars

----------------------------------------------------------------------------
(* The error handler on the errors that can reach it *)

ErrorNames ==
    {"Error", "CastError", "ValidationError", "JsonWebTokenError",
     "TokenExpiredError", "MongoServerError"}

\* An error passed to next(): its name, and the fields the handler reads,
\* present or not whatever the name; a keyField of "" is an error without
\* keyValue and errors {} one without errors
ErrorInputs ==
    [name : ErrorNames, code : {0, 11000}, keyField : {"email", "name", ""},
     message : {"", "jwt expired", "invalid signature"},
     statusCode : {0, 403},
     errors : {{}, {FieldError("email", "Email is required")}}]

\* next(err): the error handler answers the request. It is the last
\* middleware of the app, so when it throws Express's own final handler
\* answers 500 with a page that has no field of the envelope
HandleError ==
    \E err \in ErrorInputs :
        /\ ops < MaxOps
        /\ ops' = ops + 1
        /\ req' = Request("error", 0, NoEmail, "", NoToken)
        /\ args' = [NoArgs EXCEPT !.error = err]
        /\ resp' = IF errorHandler(err) # NoResponse THEN errorHandler(err)
                    ELSE Failure(500, "")
        /\ UNCHANGED <<users, nextId, now, issued, earlier, exchanged,
                       loginFails, loggedOut, raced, pend, tasks, nextTaskId,
                       plain, provider, localStorage, called>>

NextErrors ==
    \/ HandleError

SpecErrors == Init /\ [][NextErrors]_vars

----------------------------------------------------------------------------
(* The /tasks routes, and the /users routes on accounts that have tasks.  *)
(* The task routes come through the access-token middleware, which sets   *)
(* req.user to the caller's account                                       *)

TaskIds == 1..MaxTasks

\* req.params.id of a task route: the id of a task, or one never handed out
TaskParams == {toHexString(i) : i \in 1..(MaxTasks + 1)}

\* req.params.id of a user route, in digits of either case
UserParams == {<<HexLower[i]>> : i \in Ids} \cup {<<HexUpper[i]>> : i \in Ids}

\* The addresses of the accounts that work with tasks
TaskEmails == { <<"a", "@", "x", ".", "i", "o">>, <<"b", "@", "x", ".", "i", "o">> }

GetTask(s, cap) ==
    \E caller \in DOMAIN users, param \in TaskParams :
        LET p == Sent(Request("getTask", caller, NoEmail, "", NoToken),
                      [NoArgs EXCEPT !.param = param])
        IN  Begin(s, cap, p, getTask(users, tasks, nextTaskId, p))

CreateTask(s, cap, statuses) ==
    \E caller \in DOMAIN users, status \in statuses :
        LET p == Sent(Request("createTask", caller, NoEmail, "", NoToken),
                      [NoArgs EXCEPT !.title = "Buy milk", !.status = status])
        IN  Begin(s, cap, p, createTask(users, tasks, nextTaskId, now, p))

\* updateTask with a new title and priority, with a title too short for the
\* schema, or with a new status
UpdateTask(s, cap, statuses) ==
    \E caller \in DOMAIN users, param \in TaskParams,
       body \in {[title |-> "Fix bug", status |-> "", priority |-> "high"],
                 [title |-> "ab", status |-> "", priority |-> ""]}
                  \cup {[title |-> "", status |-> st, priority |-> ""] :
                          st \in statuses} :
        LET p == Sent(Request("updateTask", caller, NoEmail, "", NoToken),
                      [NoArgs EXCEPT !.param = param, !.title = body.title,
                                     !.status = body.status,
                                     !.priority = body.priority])
        IN  Begin(s, cap, p, updateTask(users, tasks, nextTaskId, now, p))

DeleteTask(s, cap) ==
    \E caller \in DOMAIN users, param \in TaskParams :
        LET p == Sent(Request("deleteTask", caller, NoEmail, "", NoToken),
                      [NoArgs EXCEPT !.param = param])
        IN  Begin(s, cap, p, deleteTask(users, tasks, nextTaskId, p))

\* bulkUpdateStatus for any list of ids with one of the statuses, or for all
\* ids with a status the schema does not have
BulkUpdateStatus(s, cap, statuses) ==
    \E caller \in DOMAIN users,
       body \in {[taskIds |-> ids, status |-> st] :
                   ids \in SUBSET TaskIds, st \in statuses}
                  \cup {[taskIds |-> TaskIds, status |-> "done"]} :
        LET p == Sent(Request("bulkUpdateStatus", caller, NoEmail, "",
                              NoToken),
                      [NoArgs EXCEPT !.taskIds = body.taskIds,
                                     !.status = body.status])
        IN  Begin(s, cap, p,
                  bulkUpdateStatus(users, tasks, nextTaskId, now, p))

BulkDelete(s, cap) ==
    \E caller \in DOMAIN users, taskIds \in SUBSET TaskIds :
        LET p == Sent(Request("bulkDelete", caller, NoEmail, "", NoToken),
                      [NoArgs EXCEPT !.taskIds = taskIds])
        IN  Begin(s, cap, p, bulkDelete(users, tasks, nextTaskId, p))

\* DELETE /users/:id past the gate
DeleteUser(s, cap, params) ==
    \E caller \in Ids, param \in params :
        LET p == Sent(Request("deleteUser", caller, NoEmail, "", NoToken),
                      [NoArgs EXCEPT !.param = param])
        IN  /\ IsAdmin(caller)
            /\ Begin(s, cap, p, deleteUser(users, tasks, nextTaskId, p))

\* The /tasks routes on one task
NextTasks ==
    \/ \E s \in Slots : Register(s, MaxTaskOps, TaskEmails, ConcPasswords,
                                 ConcRoles)
    \/ \E s \in Slots : Resume(s)
    \/ \E s \in Slots : GetTask(s, MaxTaskOps)
    \/ \E s \in Slots : CreateTask(s, MaxTaskOps, {"", "done"})
    \/ \E s \in Slots : UpdateTask(s, MaxTaskOps, {"completed", "done"})
    \/ \E s \in Slots : DeleteTask(s, MaxTaskOps)

SpecTasks == Init /\ [][NextTasks]_vars

\* The /tasks routes that set a status
NextStatus ==
    \/ \E s \in Slots : Register(s, MaxTaskOps, TaskEmails, ConcPasswords,
                                 {""})
    \/ \E s \in Slots : Resume(s)
    \/ \E s \in Slots : CreateTask(s, MaxTaskOps, Statuses \cup {"", "done"})
    \/ \E s \in Slots : UpdateTask(s, MaxTaskOps, Statuses \cup {"done"})
    \/ \E s \in Slots : BulkUpdateStatus(s, MaxTaskOps,
                                         {"in-progress", "completed"})

SpecStatus == Init /\ [][NextStatus]_vars

\* The /tasks routes that take a list of ids, and deleteTask
NextBulk ==
    \/ \E s \in Slots : Register(s, MaxBulkOps, TaskEmails, ConcPasswords,
                                 ConcRoles)
    \/ \E s \in Slots : Resume(s)
    \/ \E s \in Slots : CreateTask(s, MaxBulkOps, {""})
    \/ \E s \in Slots : DeleteTask(s, MaxBulkOps)
    \/ \E s \in Slots : BulkUpdateStatus(s, MaxBulkOps, {"completed"})
    \/ \E s \in Slots : BulkDelete(s, MaxBulkOps)

SpecBulk == Init /\ [][NextBulk]_vars

\* The /users routes that guard against a call on oneself, for accounts that
\* have tasks and sign in
NextUsers ==
    \/ \E s \in Slots : Register(s, MaxOps, TaskEmails, ConcPasswords,
                                 ConcRoles)
    \/ \E s \in Slots : Resume(s)
    \/ \E s \in Slots : Login(s, MaxOps, TaskEmails, ConcPasswords)
    \/ \E s \in Slots : CreateTask(s, MaxOps, {""})
    \/ \E s \in Slots : UpdateUser(s, MaxOps, UserParams, {"Bob"},
                                   {NoEmail}, {"", "user", "root"})
    \/ \E s \in Slots : DeleteUser(s, MaxOps, UserParams)

SpecUsers == Init /\ [][NextUsers]_vars

\* deleteUser with task requests served between its awaits.
\* req.params.id is written as toString() writes it, so an administrator's
\* own account is never the one deleted
NextCascade ==
    \/ \E s \in Slots : Register(s, MaxTaskOps, TaskEmails, ConcPasswords,
                                 ConcRoles)
    \/ \E s \in Slots : Resume(s)
    \/ \E s \in Slots : CreateTask(s, MaxTaskOps, {""})
    \/ \E s \in Slots : DeleteUser(s, MaxTaskOps, {toHexString(i) : i \in Ids})

SpecCascade == Init /\ [][NextCascade]_vars

----------------------------------------------------------------------------
(* The /users routes behind the role gate: req.user.role is the role the  *)
(* access-token middleware read                                           *)

\* req.params.id of a /users route, as toString() writes an id
GateParams == {toHexString(i) : i \in Ids}

GateGetAllUsers(s) ==
    \E caller \in DOMAIN users :
        LET p == Sent(Request("getAllUsers", caller, NoEmail, "", NoToken),
                      NoArgs)
        IN  Begin(s, MaxGateOps, p,
                  usersRoute(users, nextId, p.user.role,
                             getAllUsers(users, tasks, nextTaskId, p)))

GateGetUser(s) ==
    \E caller \in DOMAIN users, param \in GateParams :
        LET p == Sent(Request("getUser", caller, NoEmail, "", NoToken),
                      [NoArgs EXCEPT !.param = param])
        IN  Begin(s, MaxGateOps, p,
                  usersRoute(users, nextId, p.user.role,
                             getUser(users, tasks, nextTaskId, p)))

GateGetUserStats(s) ==
    \E caller \in DOMAIN users :
        LET p == Sent(Request("getUserStats", caller, NoEmail, "", NoToken),
                      NoArgs)
        IN  Begin(s, MaxGateOps, p,
                  usersRoute(users, nextId, p.user.role,
                             getUserStats(users, tasks, nextTaskId, p)))

GateCreateUser(s) ==
    \E caller \in DOMAIN users, email \in ConcEmails, role \in {""} :
        LET p == Sent(Request("createUser", caller, email, role, NoToken),
                      [NoArgs EXCEPT !.name = "Bob",
                                     !.password =
                                         <<"a", "b", "c", "1", "2", "3">>])
        IN  Begin(s, MaxGateOps, p,
                  usersRoute(users, nextId, p.user.role,
                             createUser(users, nextId, now, p)))

GateUpdateUser(s) ==
    \E caller \in DOMAIN users, param \in GateParams, role \in {"admin"} :
        LET p == Sent(Request("updateUser", caller, NoEmail, role, NoToken),
                      [NoArgs EXCEPT !.param = param, !.name = "Bob"])
        IN  Begin(s, MaxGateOps, p,
                  usersRoute(users, nextId, p.user.role,
                             updateUser(users, tasks, nextTaskId, p)))

GateDeleteUser(s) ==
    \E caller \in DOMAIN users, param \in GateParams :
        LET p == Sent(Request("deleteUser", caller, NoEmail, "", NoToken),
                      [NoArgs EXCEPT !.param = param])
        IN  Begin(s, MaxGateOps, p,
                  usersRoute(users, nextId, p.user.role,
                             deleteUser(users, tasks, nextTaskId, p)))

NextGate ==
    \/ \E s \in Slots : Register(s, MaxGateOps, TaskEmails, ConcPasswords,
                                 ConcRoles)
    \/ \E s \in Slots : Resume(s)
    \/ \E s \in Slots : CreateTask(s, MaxGateOps, {""})
    \/ \E s \in Slots : GateGetAllUsers(s)
    \/ \E s \in Slots : GateGetUser(s)
    \/ \E s \in Slots : GateGetUserStats(s)
    \/ \E s \in Slots : GateCreateUser(s)
    \/ \E s \in Slots : GateUpdateUser(s)
    \/ \E s \in Slots : GateDeleteUser(s)

SpecGate == Init /\ [][NextGate]_vars

----------------------------------------------------------------------------
(* The frontend calling the API: a function of AuthProvider sends its     *)
(* request and awaits the response; the server takes the request up, its  *)
(* handler runs from await to await, and the response travels back        *)

\* The addresses typed into the forms of this browser
TypedEmails == { <<"a", "@", "x", ".", "i", "o">>, <<"b", "@", "x", ".", "i", "o">> }

\* The function fn of AuthProvider sends the request rq with a on a free
\* connection; the interceptor of api.js adds the access token in
\* localStorage as it is now
Call(s, fn, rq, a) ==
    /\ Free(s)
    /\ ops < MaxOps
    /\ ops' = ops + 1
    /\ pend' = [pend EXCEPT ![s] =
                  [Idle EXCEPT !.req = rq, !.args = a, !.stage = "start",
                               !.bearer = localStorage.accessToken,
                               !.fn = fn]]
    /\ UNCHANGED <<users, nextId, now, req, resp, issued, earlier, exchanged,
                   loginFails, loggedOut, raced, tasks, nextTaskId, args,
                   plain, provider, localStorage, called>>

\* The request on connection s as the access-token middleware hands it on:
\* req.user is the account its token names
Authenticated(p) ==
    LET caller == protect(users, now, p.bearer)
    IN  [p EXCEPT !.req.caller = caller,
                  !.user = IF caller # 0 THEN UserData(caller, users[caller])
                           ELSE NoUserData]

\* The handler of a request the browser sent, up to its first await;
\* register and login are public, the other routes private
served(p) ==
    IF p.req.op \in {"register", "login"}
    THEN controller(users, nextId, tasks, nextTaskId, now, p)
    ELSE private(users, nextId, p.req.caller,
                 controller(users, nextId, tasks, nextTaskId, now, p))

\* The server takes up the request on connection s: the middleware, and the
\* handler up to its first await
Serve(s) ==
    /\ pend[s].stage = "start"
    /\ UNCHANGED ops
    /\ LET p == IF pend[s].req.op \in {"register", "login"} THEN pend[s]
                ELSE Authenticated(pend[s])
       IN  Step(s, p, served(p))

\* The function that awaits the response on connection s goes on with it
Deliver(s) ==
    /\ pend[s].stage = "responded"
    /\ LET view == settled(pend[s].fn, provider, localStorage, pend[s].reply)
       IN  /\ provider' = view.provider
           /\ localStorage' = view.localStorage
    /\ called' = [fn |-> pend[s].fn, failed |-> ~Fulfilled(pend[s].reply)]
    /\ pend' = [pend EXCEPT ![s] = Idle]
    /\ UNCHANGED <<users, nextId, now, ops, req, resp, issued, earlier,
                   exchanged, loginFails, loggedOut, raced, tasks, nextTaskId,
                   args, plain>>

\* The request on connection s is lost before the server takes it up, or its
\* response on the way back: axios throws, and the function goes on without
\* a response
Lost(s) ==
    /\ pend[s].stage \in {"start", "responded"}
    /\ pend[s].fn # ""
    /\ LET view == settled(pend[s].fn, provider, localStorage, NoResponse)
       IN  /\ provider' = view.provider
           /\ localStorage' = view.localStorage
    /\ called' = [fn |-> pend[s].fn, failed |-> TRUE]
    /\ pend' = [pend EXCEPT ![s] = Idle]
    /\ UNCHANGED <<users, nextId, now, ops, req, resp, issued, earlier,
                   exchanged, loginFails, loggedOut, raced, tasks, nextTaskId,
                   args, plain>>

\* The page is loaded anew: the state starts over and localStorage stays;
\* the functions that awaited a response are gone, the requests they sent
\* are served all the same
Reload ==
    /\ ~provider.loading
    /\ provider' = Mounting
    /\ called' = NoCall
    /\ pend' = [s \in Slots |->
                  IF pend[s].stage = "responded" THEN Idle
                  ELSE [pend[s] EXCEPT !.fn = ""]]
    /\ UNCHANGED <<users, nextId, now, ops, req, resp, issued, earlier,
                   exchanged, loginFails, loggedOut, raced, tasks, nextTaskId,
                   args, plain, localStorage>>

\* useEffect on mount: checkAuth. Without a token no request is sent
Mount(s) ==
    /\ provider.loading
    /\ \A o \in Slots : pend[o].fn # "checkAuth"
    /\ IF localStorage.accessToken = NoAccessToken
       THEN /\ s = 1
            /\ provider' = checkAuth(provider, localStorage, NoResponse).provider
            /\ called' = [fn |-> "checkAuth", failed |-> FALSE]
            /\ UNCHANGED <<users, nextId, now, ops, req, resp, issued, earlier,
                           exchanged, loginFails, loggedOut, raced, pend, tasks,
                           nextTaskId, args, plain, localStorage>>
       ELSE Call(s, "checkAuth", Request("getMe", 0, NoEmail, "", NoToken),
                 NoArgs)

\* While loading is true App renders the spinner and nothing else, so the
\* other functions are called after the mount-time check has ended
BrowserRegister(s) ==
    /\ ~provider.loading
    /\ \E email \in TypedEmails, password \in ConcPasswords :
          Call(s, "register", Request("register", 0, email, "user", NoToken),
               [NoArgs EXCEPT !.name = "Ann", !.password = password])

BrowserLogin(s) ==
    /\ ~provider.loading
    /\ \E email \in TypedEmails, password \in ConcPasswords :
          Call(s, "login", Request("login", 0, email, "", NoToken),
               [NoArgs EXCEPT !.password = password])

BrowserLogout(s) ==
    /\ ~provider.loading
    /\ Call(s, "logout", Request("logout", 0, NoEmail, "", NoToken), NoArgs)

BrowserUpdateProfile(s) ==
    /\ ~provider.loading
    /\ \E name \in {"Bob"}, email \in {<<"b", "@", "x", ".", "i", "o">>, NoEmail} :
          Call(s, "updateProfile",
               Request("updateProfile", 0, email, "", NoToken),
               [NoArgs EXCEPT !.name = name])

BrowserUpdatePassword(s) ==
    /\ ~provider.loading
    /\ \E currentPassword \in Passwords,
          newPassword \in Passwords \ ConcPasswords :
          Call(s, "updatePassword",
               Request("updatePassword", 0, NoEmail, "", NoToken),
               [NoArgs EXCEPT !.currentPassword = currentPassword,
                              !.password = newPassword])

NextBrowser ==
    \/ \E s \in Slots : Mount(s)
    \/ Reload
    \/ \E s \in Slots : BrowserRegister(s)
    \/ \E s \in Slots : BrowserLogin(s)
    \/ \E s \in Slots : BrowserLogout(s)
    \/ \E s \in Slots : BrowserUpdateProfile(s)
    \/ \E s \in Slots : BrowserUpdatePassword(s)
    \/ \E s \in Slots : Serve(s)
    \/ \E s \in Slots : Resume(s)
    \/ \E s \in Slots : Deliver(s)
    \/ \E s \in Slots : Lost(s)
    \/ Tick

SpecBrowser == Init /\ [][NextBrowser]_vars

----------------------------------------------------------------------------
(* Specifications *)

\* Registration and login, on addresses in either letter case and on right
\* and wrong passwords
Next ==
    \/ \E s \in Slots : Register(s, MaxOps, Emails, Passwords, {""})
    \/ \E s \in Slots : Resume(s)
    \/ \E s \in Slots : Login(s, MaxOps, Emails, Passwords)

Spec == Init /\ [][Next]_vars

\* Registration with any role a client can ask for
NextRoles ==
    \/ \E s \in Slots : Register(s, MaxOps, ConcEmails, ConcPasswords,
                                 RequestedRoles)
    \/ \E s \in Slots : Resume(s)

SpecRoles == Init /\ [][NextRoles]_vars

\* The handlers that write the stored refresh token, with the clock running
NextSession ==
    \/ \E s \in Slots : Register(s, MaxConcOps, ConcEmails, ConcPasswords,
                                 {""})
    \/ \E s \in Slots : Resume(s)
    \/ \E s \in Slots : Login(s, MaxConcOps, ConcEmails, ConcPasswords)
    \/ \E s \in Slots : RefreshToken(s, MaxConcOps)
    \/ \E s \in Slots : Logout(s, MaxConcOps)
    \/ Tick

SpecSession == Init /\ [][NextSession]_vars

\* The handlers that read or write the password, with the clock running
NextPassword ==
    \/ \E s \in Slots : Register(s, MaxOps, ConcEmails, ConcPasswords, {""})
    \/ \E s \in Slots : Resume(s)
    \/ \E s \in Slots : Login(s, MaxOps, ConcEmails, Passwords)
    \/ \E s \in Slots : UpdatePassword(s, MaxOps, Passwords)
    \/ Tick

SpecPassword == Init /\ [][NextPassword]_vars

----------------------------------------------------------------------------
(* Properties. A step answers a request when the handler that came in     *)
(* with it answers before its first await, or when a handler in flight    *)
(* sends its response after the operation it awaited                      *)

InFlight(p) == p.stage \notin {"idle", "responded"}

\* The request req' was answered in this step with resp'
Answered ==
    \/ ops' = ops + 1 /\ pend' = pend
    \/ \E s \in Slots : InFlight(pend[s]) /\ ~InFlight(pend'[s])

\* The request on connection s came in with this step and its handler waits
CameToWait(s) ==
    ops' = ops + 1 /\ pend[s].stage = "idle" /\ InFlight(pend'[s])

\* The request req' came in with this step and was answered in it
CameAndAnswered == ops' = ops + 1 /\ pend' = pend

IssuesNothing(r) ==
    r.body.refreshToken = NoToken /\ r.body.accessToken = NoAccessToken

\* Two emails are the same up to the case of their letters
SameLetter(c, d) ==
    \/ c = d
    \/ {c, d} \in {{"a", "A"}, {"b", "B"}, {"x", "X"}}

EqualIgnoringCase(e, f) ==
    Len(e) = Len(f) /\ \A i \in 1..Len(e) : SameLetter(e[i], f[i])

\* The handler on connection s answers in this step, after the operation
\* its request awaited at stage
AnsweredAt(s, stage) ==
    pend[s].stage = stage /\ pend'[s].stage \in {"idle", "responded"}

\* RefreshToken would accept the token of a request that comes in now and
\* is served at once
Accepted(token) ==
    refreshRefusal(now, token) = NoResponse /\ ~notStored(users, token)

----------------------------------------------------------------------------
(* Properties of the session manager *)

\* C1: once RefreshToken has succeeded presenting R, RefreshToken refuses
\* every later call that presents R: in no state is a token that was
\* exchanged one that would be accepted.
C1_ExchangedTokenRefused ==
    \A token \in exchanged : ~Accepted(token)

\* C3: for each account RefreshToken accepts at most the stored token, and
\* refuses every refresh token handed out before the latest one.
C3_OnlyLatestAccepted ==
    \A id \in DOMAIN users :
        /\ \A token \in issued[id] :
               Accepted(token) => token = users[id].refreshToken
        /\ \A token \in earlier[id] : ~Accepted(token)

\* C4: every successful Register, Login, RefreshToken and UpdatePassword hands
\* out a refresh token never handed out for the account before, and that
\* token is the one stored on the account when the call completes.
C4_FreshTokenStored ==
    [][(Answered /\ resp'.body.success
          /\ req'.op \in {"register", "login", "refresh", "updatePassword"})
         => LET rt == resp'.body.refreshToken
            IN  /\ rt.kind = "refresh"
                /\ rt \notin issued[rt.id]
                /\ users'[rt.id].refreshToken = rt]_vars

\* C5: after Logout has answered, the account stores no refresh token and
\* RefreshToken accepts none of the tokens handed out for it, until the
\* account signs in again by Register, Login or UpdatePassword.
C5_LogoutRevokesRefresh ==
    \A id \in loggedOut :
        /\ users[id].refreshToken = NoToken
        /\ \A token \in issued[id] : ~Accepted(token)

\* C6: Logout changes no account except for the caller's stored refresh
\* token: name, email, role, password hash and passwordChangedAt stay, so the
\* claims of an access token and changedPasswordAfter are as before.
C6_LogoutFrame ==
    [][(Answered /\ req'.op = "logout")
         => /\ DOMAIN users' = DOMAIN users
            /\ \A id \in DOMAIN users :
                  /\ users'[id].name = users[id].name
                  /\ users'[id].email = users[id].email
                  /\ users'[id].role = users[id].role
                  /\ users'[id].password = users[id].password
                  /\ users'[id].passwordChangedAt = users[id].passwordChangedAt
                  /\ id # req'.caller
                       => users'[id].refreshToken = users[id].refreshToken
                  /\ generateAccessToken(id, users'[id], now)
                       = generateAccessToken(id, users[id], now)]_vars

\* a logout answered while a login on the same account, with its password
\* verified, waits on its save
C6_Witness ==
    /\ req.op = "logout"
    /\ resp.status = 200
    /\ users[req.caller].refreshToken = NoToken
    /\ issued[req.caller] # {}
    /\ \E s \in Slots : pend[s].req.op = "login" /\ pend[s].id = req.caller

\* C2: of the RefreshToken requests in flight together that present the same
\* stored token, at most one succeeds.
C2_OneRefreshWins ==
    \A w, v \in raced : w.token = v.token => w.connection = v.connection

\* C29: a refreshToken request that read the stored token before a logout
\* cleared it, and saves after the logout, leaves the account without a
\* stored refresh token.
C29_LogoutNotUndone ==
    [][\A s \in Slots :
          (/\ pend[s].req.op = "refresh"
           /\ pend[s].stage = "save"
           /\ pend'[s].stage = "idle"
           /\ pend[s].id \in loggedOut
           /\ users[pend[s].id].refreshToken = NoToken)
            => users'[pend[s].id].refreshToken = NoToken]_vars

\* C22: a refreshToken request that fails issues no token and leaves the store
\* as it was, and a token that verifies but is not the stored one is answered
\* with the very response given to a token that does not verify.
C22_FailingRefreshAlike ==
    [][(Answered /\ req'.op = "refresh" /\ resp'.status # 200)
         => /\ IssuesNothing(resp')
            /\ ~resp'.body.success
            /\ users' = users
            /\ \A s \in Slots :
                  (AnsweredAt(s, "findById")
                     /\ notStored(users, pend[s].req.token))
                    => resp' = refreshRefusal(now, GarbageToken)]_vars

\* C7: a Login refused for want of an account and a Login refused for a wrong
\* password get the same status, 401, and the same body, and neither changes
\* an account or issues a token.
C7_LoginFailuresAlike ==
    /\ [](\A f, g \in loginFails : f.resp = g.resp /\ f.resp.status = 401)
    /\ [][(Answered /\ req'.op = "login" /\ resp'.status # 200)
            => (users' = users /\ issued' = issued /\ IssuesNothing(resp'))]_vars

C7_Witness ==
    /\ \E f \in loginFails : f.reason = "no account"
    /\ \E f \in loginFails : f.reason = "wrong password"

\* An account has the address up to letter case
Taken(email) ==
    \E id \in DOMAIN users : EqualIgnoringCase(users[id].email, email)

\* C9: Register with an email that equals an existing account's email up to
\* letter case is refused with 400, creates no account and issues no tokens:
\* by User.findOne when the account is there as it looks, by User.create
\* when the account was created while the request waited.
C9_DuplicateEmailRefused ==
    [][\A s \in Slots :
          (/\ pend[s].req.op = "register"
           /\ pend[s].stage \in {"findOne", "create"}
           /\ pend'[s] # pend[s]
           /\ Taken(pend[s].req.email))
            => /\ pend'[s].stage = "idle"
               /\ resp'.status = 400
               /\ users' = users
               /\ IssuesNothing(resp')]_vars

\* a registration was refused for an address that differs from the existing
\* account's in letter case only
C9_Witness ==
    /\ req.op = "register"
    /\ resp.status = 400
    /\ \E id \in DOMAIN users :
          users[id].email # req.email /\ EqualIgnoringCase(users[id].email, req.email)

\* C10: Register stores the requested role when it is user or admin and user
\* otherwise, whatever the value asked for: User.create on a free address
\* inserts the account with that role, and the returned account and the
\* access token carry the stored role.
C10_RegisteredRole ==
    [][/\ \A s \in Slots :
             (/\ pend[s].req.op = "register" /\ pend[s].stage = "create"
              /\ pend'[s] # pend[s] /\ ~Taken(pend[s].req.email))
               => /\ nextId' = nextId + 1
                  /\ users'[nextId].role
                       = (IF pend[s].req.role \in {"user", "admin"}
                          THEN pend[s].req.role ELSE "user")
       /\ (Answered /\ req'.op = "register" /\ resp'.status = 201)
            => LET id == resp'.body.user.id
               IN  /\ users'[id].role
                        = (IF req'.role = "admin" THEN "admin" ELSE "user")
                   /\ resp'.body.user.role = users'[id].role
                   /\ resp'.body.accessToken.role = users'[id].role]_vars

C10_Witness ==
    /\ req.op = "register"
    /\ resp.status = 201
    /\ req.role = "Admin"
    /\ users[resp.body.user.id].role = "user"
    /\ \E id \in DOMAIN users : users[id].role = "admin"

\* C8: no two accounts have emails that are equal up to letter case, however
\* register, createUser, updateProfile and updateUser interleave.
C8_EmailsUnique ==
    \A i, j \in DOMAIN users :
        i # j => ~EqualIgnoringCase(users[i].email, users[j].email)

\* two accounts exist and a write that had passed its check for a free email
\* was refused by the index
C8_Witness ==
    /\ Cardinality(DOMAIN users) = 2
    /\ resp = Failure(400, "Email already exists")

----------------------------------------------------------------------------
(* Properties of the /auth routes *)

\* The password fails the strength policy
Weak(password) ==
    \/ Len(password) < 6
    \/ \A i \in DOMAIN password : password[i] \notin Letters
    \/ \A i \in DOMAIN password : password[i] \notin Digits

Last(seq) == seq[Len(seq)]

\* The request is one C11 speaks of
Unfit(rq, a) ==
    /\ rq.op \in {"register", "updatePassword"}
    /\ Weak(a.password) \/ a.confirmPassword # a.password

\* C11: a Register or UpdatePassword request whose new password is shorter
\* than 6 characters, has no letter or has no digit, or whose confirmation
\* differs from it, gets 400 with per-field errors as it comes in; no account
\* is created or changed and no token is issued.
C11_WeakPasswordRejected ==
    [][/\ (CameAndAnswered /\ Unfit(req', args'))
            => /\ resp'.status = 400
               /\ resp'.body.message = "Validation failed"
               /\ \E e \in resp'.body.errors :
                     e.field \in {"password", "confirmPassword", "newPassword",
                                  "confirmNewPassword"}
               /\ users' = users
               /\ issued' = issued
               /\ IssuesNothing(resp')
       /\ \A s \in Slots :
             CameToWait(s) => ~Unfit(pend'[s].req, pend'[s].args)]_vars

\* an account with the right current password asks for a new password without
\* a digit and is told so
C11_Witness ==
    /\ req.op = "updatePassword"
    /\ comparePassword(users[req.caller], args.currentPassword)
    /\ args.password = <<"a", "b", "c", "d", "e", "f">>
    /\ args.confirmPassword = args.password
    /\ resp.status = 400
    /\ FieldError("newPassword", "Password must contain at least one number")
         \in resp.body.errors

LoginAccepts(id, password) ==
    /\ findOne(users, users[id].email) = id
    /\ comparePassword(unselected(users[id]), password)

\* C13: once UpdatePassword has succeeded on an account and no other
\* UpdatePassword is under way, a Login with the new password has it
\* accepted and a Login with the password it replaced is refused with 401
\* Invalid credentials.
C13_LoginAfterUpdatePassword ==
    (/\ req.op = "updatePassword" /\ resp.status = 200
     /\ req.caller \in DOMAIN users
     /\ \A s \in Slots : pend[s].req.op # "updatePassword")
      => /\ LoginAccepts(req.caller, args.password)
         /\ args.currentPassword # args.password
              => ~LoginAccepts(req.caller, args.currentPassword)

\* C14: UpdatePassword with a current password that does not match the hash
\* the handler loaded from the store is refused with 401 when the comparison
\* resolves; the account keeps its password hash, passwordChangedAt and
\* stored refresh token, and no token is issued.
C14_WrongCurrentPassword ==
    [][\A s \in Slots :
          (/\ pend[s].req.op = "updatePassword"
           /\ pend[s].stage = "compare"
           /\ pend'[s] # pend[s]
           /\ ~comparePassword(pend[s].doc, pend[s].args.currentPassword))
            => /\ pend'[s].stage = "idle"
               /\ resp'.status = 401
               /\ users' = users
               /\ issued' = issued
               /\ IssuesNothing(resp')]_vars

C14_Witness ==
    /\ req.op = "updatePassword"
    /\ resp.status = 401
    /\ users[req.caller].passwordChangedAt # NoDate
    /\ users[req.caller].refreshToken # NoToken
    /\ ~Weak(args.password)

\* The time of the account's last password change: pre('save') stores
\* Date.now() - 1000
ChangedAt(u) == u.passwordChangedAt + 1000

\* C27: changedPasswordAfter is false for every token of an account whose
\* password never changed; after a change at time T it is true for every token
\* issued in a second before that of T, and false for every token issued in a
\* later second and for the pair the change itself issued.
C27_ChangedPasswordAfter ==
    \A id \in DOMAIN users :
        \A tok \in issued[id] :
            LET u == users[id]
            IN  IF u.passwordChangedAt = NoDate
                THEN ~changedPasswordAfter(u, tok.iat)
                ELSE /\ tok.iat < Sec(ChangedAt(u))
                          => changedPasswordAfter(u, tok.iat)
                     /\ tok.iat > Sec(ChangedAt(u))
                          => ~changedPasswordAfter(u, tok.iat)
                     /\ (req.op = "updatePassword" /\ resp.status = 200
                           /\ req.caller = id /\ tok = resp.body.refreshToken)
                          => ~changedPasswordAfter(u, tok.iat)

----------------------------------------------------------------------------
(* Properties of failing requests *)

\* C21: a register or login request that fails, at whichever step, leaves the
\* store as it was: the step that fails writes nothing, and the account a
\* register request has created is not there when it fails.
C21_FailureLeavesStore ==
    [][/\ (Answered /\ req'.op \in {"register", "login"}
             /\ ~resp'.body.success)
            => users' = users
       /\ \A s \in Slots :
             (/\ pend[s].req.op = "register" /\ pend[s].stage = "save"
              /\ ~InFlight(pend'[s]) /\ ~resp'.body.success)
               => pend[s].id \notin DOMAIN users']_vars

C24_GenericServerError ==
    resp.status = 500 => resp = Failure(500, "Server Error")

----------------------------------------------------------------------------
(* Properties of the task and user routes *)

\* The string names the ObjectId, in digits of either case
Denotes(param, id) == param \in {<<HexLower[id]>>, <<HexUpper[id]>>}

\* The id of a task that was never created
Missing == toHexString(MaxTasks + 1)

\* What the handler of the request p answers, at the await it has reached,
\* about a task that does not exist
AnswerForMissing(p) ==
    controller(users, nextId, tasks, nextTaskId, now,
               [p EXCEPT !.args.param = Missing]).resp

\* The handler on connection s goes on in this step from its await on stage
GoesOnFrom(s, stages) == pend[s].stage \in stages /\ pend'[s] # pend[s]

\* The request names an existing task of an account other than the caller,
\* who is not an admin
OthersTask(rq, a) ==
    /\ rq.op \in {"getTask", "updateTask", "deleteTask"}
    /\ \E id \in DOMAIN tasks : Denotes(a.param, id) /\ tasks[id].user # rq.caller
    /\ users[rq.caller].role # "admin"

\* C15: getTask, updateTask and deleteTask by a caller who is not an admin,
\* on a task of another account, answer 404 when the query resolves,
\* exactly as for a task that does not exist, and leave the tasks unchanged.
C15_OthersTaskNotFound ==
    [][\A s \in Slots :
          (/\ GoesOnFrom(s, {"findOne", "findOneAndDelete"})
           /\ OthersTask(pend[s].req, pend[s].args))
            => /\ pend'[s].stage = "idle"
               /\ resp'.status = 404
               /\ resp' = AnswerForMissing(pend[s])
               /\ tasks' = tasks]_vars

C15_Witness ==
    /\ req.op \in {"updateTask", "deleteTask"}
    /\ req.caller \in DOMAIN users
    /\ OthersTask(req, args)
    /\ resp.status = 404

\* C16: getTask, updateTask and deleteTask by an admin on an existing task
\* are not refused when the query resolves, whichever account owns the task.
C16_AdminReachesAnyTask ==
    [][\A s \in Slots :
          (/\ pend[s].req.op \in {"getTask", "updateTask", "deleteTask"}
           /\ GoesOnFrom(s, {"findOne", "findOneAndDelete"})
           /\ pend[s].user.role = "admin"
           /\ \E id \in DOMAIN tasks : Denotes(pend[s].args.param, id))
            => (pend'[s].stage = "idle" => resp'.status = 200)]_vars

\* The request is an admin's deleteUser, or updateUser with another role, on
\* the admin's own account
SelfAction(p) ==
    /\ \/ p.req.op = "deleteUser"
       \/ /\ p.req.op = "updateUser"
          /\ p.req.role # ""
          /\ p.req.role # p.user.role
    /\ Denotes(p.args.param, p.user.id)
    /\ p.user.id \in DOMAIN users

\* C17: updateUser with a role other than the caller's, and deleteUser, by an
\* admin on the admin's own account are refused when the account has been
\* looked up; the account keeps its role, name and email and its tasks stay.
C17_SelfActionRefused ==
    [][\A s \in Slots :
          (GoesOnFrom(s, {"findById"}) /\ SelfAction(pend[s]))
            => /\ pend'[s].stage = "idle"
               /\ resp'.status = 400
               /\ users' = users
               /\ tasks' = tasks]_vars

\* No request is in flight
Quiescent == \A s \in Slots : pend[s].stage = "idle"

\* C18: once deleteUser has answered and no request is in flight, the owner of
\* every task is an existing account, also when the owner created tasks while
\* deleteUser was between its two deletions.
C18_NoOrphanTasks ==
    Quiescent => \A id \in DOMAIN tasks : tasks[id].user \in DOMAIN users

\* C19: a task has a completion timestamp exactly when its status is completed.
C19_CompletedAtIffCompleted ==
    \A id \in DOMAIN tasks :
        (tasks[id].completedAt # NoDate) <=> (tasks[id].status = "completed")

\* C20: deleteTask, bulkDelete and bulkUpdateStatus leave every task of
\* another account as it was, whatever the caller's role, and act on exactly
\* the caller's own tasks they name.
C20_OnlyOwnTasksAffected ==
    [][(Answered /\ req'.op \in {"deleteTask", "bulkDelete", "bulkUpdateStatus"})
         => LET caller == req'.caller
                own == {id \in DOMAIN tasks : tasks[id].user = caller}
                named == IF req'.op = "deleteTask"
                         THEN {id \in DOMAIN tasks : Denotes(args'.param, id)}
                         ELSE args'.taskIds
                hit == own \cap named
            IN  /\ \A id \in DOMAIN tasks \ hit :
                      id \in DOMAIN tasks' /\ tasks'[id] = tasks[id]
                /\ req'.op \in {"deleteTask", "bulkDelete"}
                     => DOMAIN tasks' = DOMAIN tasks \ hit
                /\ (req'.op = "bulkUpdateStatus" /\ args'.status \in Statuses)
                     => /\ DOMAIN tasks' = DOMAIN tasks
                        /\ \A id \in hit : tasks'[id].status = args'.status
                /\ (req'.op = "bulkUpdateStatus" /\ args'.status \notin Statuses)
                     => tasks' = tasks]_vars

\* an admin's bulkDelete named a task of its own and a task of another
\* account: one was deleted and the other is still there
C20_Witness ==
    /\ req.op = "bulkDelete"
    /\ users[req.caller].role = "admin"
    /\ resp.body.count = 1
    /\ Cardinality(args.taskIds) = 2
    /\ \E id \in DOMAIN tasks : id \in args.taskIds /\ tasks[id].user # req.caller

UsersOps ==
    {"getAllUsers", "getUser", "getUserStats", "createUser", "updateUser",
     "deleteUser"}

\* The request is to a /users operation by a caller whose role is not admin
Ungranted(rq) == rq.op \in UsersOps /\ users[rq.caller].role # "admin"

\* C25: a request to a /users operation by a caller whose role is not admin
\* fails as it comes in, and no account and no task is changed.
C25_UsersRoutesAdminOnly ==
    [][/\ (CameAndAnswered /\ Ungranted(req'))
            => /\ ~resp'.body.success
               /\ resp'.status \notin 200..299
               /\ users' = users
               /\ tasks' = tasks
       /\ \A s \in Slots : CameToWait(s) => ~Ungranted(pend'[s].req)]_vars

\* a caller with role user asked to delete another account that has a task,
\* was refused, and the account and the task are still there
C25_Witness ==
    /\ req.op = "deleteUser"
    /\ req.caller \in DOMAIN users
    /\ users[req.caller].role = "user"
    /\ ~resp.body.success
    /\ \E id \in DOMAIN users :
          /\ id # req.caller
          /\ Denotes(args.param, id)
          /\ \E k \in DOMAIN tasks : tasks[k].user = id

\* C26: every response carries success and a message, success is true exactly
\* for a 2xx status, and errors is a list of {field, message} entries.
C26_ResponseEnvelope ==
    resp # NoResponse
      => /\ resp.body.success \in BOOLEAN
         /\ resp.body.success <=> resp.status \in 200..299
         /\ resp.body.message # ""
         /\ \A e \in resp.body.errors : DOMAIN e = {"field", "message"}

----------------------------------------------------------------------------
(* Properties of the frontend *)

\* C28: when updatePassword of AuthProvider goes on with a successful
\* response and no other request is under way, the refresh token in
\* localStorage is the one the server stored on the account
C28_ClientHoldsStoredToken ==
    [][\A s \in Slots :
          (/\ pend[s].stage = "responded" /\ pend[s].fn = "updatePassword"
           /\ Fulfilled(pend[s].reply)
           /\ called' = [fn |-> "updatePassword", failed |-> FALSE]
           /\ \A o \in Slots : pend'[o].stage = "idle"
           /\ pend[s].reply.body.user.id \in DOMAIN users)
            => localStorage'.refreshToken
                 = users'[pend[s].reply.body.user.id].refreshToken]_vars

\* C30: in every state of AuthProvider isAuthenticated is true only with a
\* user in the state and an access token in localStorage; once logout has
\* run both tokens are gone and isAuthenticated is false, also when its
\* request failed; once the mount-time check has run loading is false
C30_AuthProviderConsistent ==
    /\ provider.isAuthenticated
          => /\ provider.user # NoUserData
             /\ localStorage.accessToken # NoAccessToken
    /\ called.fn = "logout"
          => localStorage = NoItems /\ ~provider.isAuthenticated
    /\ called.fn = "checkAuth" => ~provider.loading

\* logout has run for a signed-in browser and its request failed, so that the
\* server still holds the refresh token it had issued to it
C30_Witness ==
    /\ called = [fn |-> "logout", failed |-> TRUE]
    /\ req.op \in {"register", "login"} /\ Fulfilled(resp)
    /\ users[resp.body.user.id].refreshToken = resp.body.refreshToken
    /\ localStorage = NoItems
    /\ provider = [Mounting EXCEPT !.loading = FALSE]

====
